---- MODULE Spec2Model ----
(***************************************************************************)
(* Model of the hyperdrive job queue (src/app/jobs.py) and of the worker   *)
(* loop that consumes it (src/worker.py).                                  *)
(*                                                                         *)
(* Redis is modelled by two variables: store (the hash hyperdrive:jobs)    *)
(* and pending (the list hyperdrive:queue).  Every Redis command is one    *)
(* atomic step; a Python method that issues several commands is several    *)
(* steps, so that other processes interleave between them exactly as they  *)
(* can against a real Redis server.                                        *)
(*                                                                         *)
(* A Job object held by a caller is a private copy (Job.from_dict of the   *)
(* JSON read by hget); update_job writes the whole copy back with hset.    *)
(*                                                                         *)
(* Job ids are str(uuid.uuid4())[:8]; they are modelled as fresh numbers   *)
(* handed out in creation order (uuid collisions are not modelled).        *)
(***************************************************************************)
EXTENDS Integers, Sequences, FiniteSets, TLC

\* ------------------------------------------------------------------------
\* Bounds of the model
\* ------------------------------------------------------------------------
MaxJobs == 2
MaxTime == 2
MaxFaults == 1
UsecBase == 2
NegLimit == 1

Workers == {"w1", "w2"}
JobIds == 1..MaxJobs
NoJob == [id |-> 0]
None == "None"
NoTime == <<>>
NoExc == [text |-> "None", job |-> 0]

\* ------------------------------------------------------------------------
\* datetime.now().isoformat(): "....SS" when microsecond = 0, otherwise
\* "....SS.ffffff".  A time is a number of sub-second ticks; the text is a
\* sequence of character codes compared lexicographically, as Python
\* compares str.
\* ------------------------------------------------------------------------
DotCode == 46
ZeroCode == 48

isoformat(t) ==
    <<ZeroCode + (t \div UsecBase)>> \o
        (IF t % UsecBase = 0 THEN <<>> ELSE <<DotCode, ZeroCode + (t % UsecBase)>>)

RECURSIVE StrLess(_, _)
StrLess(a, b) ==
    IF b = <<>> THEN FALSE
    ELSE IF a = <<>> THEN TRUE
    ELSE IF Head(a) # Head(b) THEN Head(a) < Head(b)
    ELSE StrLess(Tail(a), Tail(b))

StrLeq(a, b) == a = b \/ StrLess(a, b)

\* ------------------------------------------------------------------------
\* Job (dataclass) and the request parameters a submission can carry
\* ------------------------------------------------------------------------
JobParams ==
    { [include_tweets |-> TRUE,  include_retweets |-> FALSE, include_replies |-> FALSE, dates_valid |-> TRUE],
      [include_tweets |-> TRUE,  include_retweets |-> TRUE,  include_replies |-> TRUE,  dates_valid |-> TRUE],
      [include_tweets |-> FALSE, include_retweets |-> FALSE, include_replies |-> FALSE, dates_valid |-> TRUE],
      [include_tweets |-> TRUE,  include_retweets |-> FALSE, include_replies |-> FALSE, dates_valid |-> FALSE] }

DefaultParams ==
    [include_tweets |-> TRUE, include_retweets |-> TRUE, include_replies |-> TRUE, dates_valid |-> TRUE]

Job(id, p, t) ==
    [ id |-> id,
      status |-> "pending",
      include_tweets |-> p.include_tweets,
      include_retweets |-> p.include_retweets,
      include_replies |-> p.include_replies,
      dates_valid |-> p.dates_valid,
      progress |-> 0,
      current_step |-> <<"Queued">>,
      tweets_scraped |-> 0,
      retweets_scraped |-> 0,
      analysis |-> "",
      highlighted_tweets |-> <<>>,
      error |-> None,
      created_at |-> isoformat(t),
      started_at |-> NoTime,
      completed_at |-> NoTime,
      worker_id |-> None ]

Terminal(j) == j.status \in {"completed", "failed"}

\* ------------------------------------------------------------------------
\* JobQueue methods as functions on the caller's Job object.  Each returns
\* the mutated object, which update_job then writes to the store.
\* ------------------------------------------------------------------------
update_job(st, job) == [st EXCEPT ![job.id] = job]

get_job(st, id) == st[id]

\* faulty variant of rpush: the id is put at the head (lpush)
rpush_front(q, id) == <<id>> \o q

rpush(q, id) == Append(q, id)

\* faulty variant of blpop: the head is read but left in the list (lindex)
blpop_rest_peek(q) == q

\* what blpop leaves in the list; its reply is Head(q)
blpop_rest(q) == Tail(q)

\* faulty variant of the claim: the caller's id is not stamped
claim_fields_unstamped(job, w, t) ==
    [job EXCEPT !.status = "running",
                !.started_at = isoformat(t),
                !.current_step = <<"Starting...">>]

claim_fields(job, w, t) ==
    [job EXCEPT !.status = "running",
                !.started_at = isoformat(t),
                !.worker_id = w,
                !.current_step = <<"Starting...">>]

complete_job(job, analysis, highlighted, ts, rs, t) ==
    [job EXCEPT !.status = "completed",
                !.completed_at = isoformat(t),
                !.progress = 100,
                !.current_step = <<"Complete">>,
                !.analysis = analysis,
                !.highlighted_tweets = highlighted,
                !.tweets_scraped = ts,
                !.retweets_scraped = rs]

fail_job(job, error, t) ==
    [job EXCEPT !.status = "failed",
                !.completed_at = isoformat(t),
                !.current_step = <<"Failed">>,
                !.error = error]

update_progress(job, progress, step, ts, rs) ==
    [job EXCEPT !.progress = progress,
                !.current_step = step,
                !.tweets_scraped = ts,
                !.retweets_scraped = rs]

\* jobs[:limit] on a Python list, negative limit included
py_slice_to(s, limit) ==
    LET n == Len(s)
        k == IF limit >= 0 THEN (IF limit < n THEN limit ELSE n)
             ELSE (IF n + limit > 0 THEN n + limit ELSE 0)
    IN SubSeq(s, 1, k)

\* faulty variant of the sort: ascending (reverse=True forgotten)
sort_key_order_asc(a, b) == StrLeq(a.created_at, b.created_at)

\* jobs.sort(key=created_at, reverse=True): order relation of two neighbours
sort_key_order(a, b) == StrLeq(b.created_at, a.created_at)

IsSorted(s) == \A i \in 1..(Len(s) - 1) : sort_key_order(s[i], s[i + 1])

StoredIds(st) == {i \in JobIds : st[i] # NoJob}

Perms(S) ==
    {f \in [1..Cardinality(S) -> S] : \A i, k \in 1..Cardinality(S) : i # k => f[i] # f[k]}

\* every outcome of hgetall + stable sort: a sorted arrangement of all records
list_jobs_results(st, limit) ==
    { py_slice_to([i \in 1..Cardinality(StoredIds(st)) |-> st[f[i]]], limit) :
        f \in {g \in Perms(StoredIds(st)) :
                 IsSorted([i \in 1..Cardinality(StoredIds(st)) |-> st[g[i]]])} }

\* ------------------------------------------------------------------------
\* State
\* ------------------------------------------------------------------------
VARIABLES
    store,      \* Redis hash hyperdrive:jobs: job id -> serialized Job, NoJob when absent
    pending,    \* Redis list hyperdrive:queue: ids waiting to be claimed, head first
    now,        \* the wall clock read by datetime.now()
    nextId,     \* number of job ids handed out so far, plus one
    creating,   \* id whose create_job has done hset but not yet rpush, 0 when none
    pc,         \* per caller: position in the method or loop it is executing
    local,      \* per caller: the Job object it holds
    popped,     \* per caller: the id its blpop returned, 0 when none
    lastRet,    \* per caller: its last get_next_job return: job id (0 = None, -1 = no call yet) and the number of pops done by then
    retOrder,   \* history: ids returned by get_next_job, in order of return
    popOrder,   \* history: ids removed from the list by blpop, in order of removal
    listed,     \* the value returned by the last list_jobs call
    listLimit,  \* the limit argument of the last list_jobs call
    faults,     \* number of external calls that have raised so far
    hb,         \* per worker: last heartbeat written
    rtc,        \* per worker: retweets_count of process_job
    twc,        \* per worker: tweets_count of process_job
    exc,        \* per worker: the exception raised inside process_job's try block and the job it hit
    vpn,        \* per worker: calls issued to the VPN client by process_job, in order
    vpn_state,  \* whether the VPN of the worker's host is "connected" or "disconnected"
    vpn_found,  \* history: vpn_state right before the worker's last disconnect step, "none" before it
    steps,      \* per worker, history: the scrapes and the analysis call of the job in hand, as they start and end
    scraper,    \* which scraper class is running: "none", "timeline", "search" or "basic"
    spc,        \* position of the scrape: "idle", "range", "fetch", "finish", "done"
    result_tweets,      \* ScrapeResult.tweets: post ids in the order collected
    range_tweets,       \* tweets of the running _scrape_date_range call (search scraper)
    seen_ids,           \* the scrape's dedup set
    cursor,             \* pagination cursor of the next fetch, 0 for None
    consecutive_empty,  \* counter of the timeline and basic scrapers
    restart_count,      \* the scraper instance's restart_count
    date_ranges,        \* windows that scrape_user has still to visit, current one first
    rate_limited,       \* ScrapeResult.rate_limited
    switches,   \* history: country indices selected by _switch_vpn during the job, in order
    emptyRun,   \* history: zero-new pages fetched in a row by the running loop
    failedUrl,  \* history: window and cursor of the last fetch that was answered by a rate-limit signal, with the number of posts held then
    retrying,   \* history: the last step was a successful _reset_for_rate_limit
    dupSeen,    \* history: a page has carried a post id that was already collected
    limited,    \* environment: every response from now on is a rate-limit signal
    loopExit,   \* history: why the last page loop was left
    max_tweets, \* the cap given to the scraper: max_tweets or max_retweets
    error,      \* ScrapeResult.error, None while unset
    fetchFailed,        \* history: a page loop of the running scrape was left on a fetch failure
    notFound,   \* history: "seen" once a response said that the target does not exist, "refetched" once a request followed it
    gen_in,     \* arguments of the _generate_date_ranges call under test
    gen_out,    \* what it returned, reversed as scrape_user visits it
    compiled,   \* compiled_tweets given to analyze: the lengths of its records
    apc,        \* position of analyze: "idle", "chunks", "synthesis", "done"
    chunks,     \* chunks still to be analysed
    calls,      \* history: completion calls issued by analyze, in order
    call_args,  \* history: what each of these calls was given
    item_of,    \* for each record of compiled, the number of the item whose text it is part of
    responses,  \* history: what each chunk completion call met: "text", "empty" or "raise", and the flags its text names
    chunk_analyses,     \* chunk_analyses of analyze
    all_highlighted,    \* all_highlighted of analyze
    analysis,   \* the AnalysisResult that analyze returned, NoAnalysis until it returns
    reset_mode, \* which _reset_for_rate_limit runs: "search_docker", "search_host" or "timeline"
    rpc,        \* position of _reset_for_rate_limit: "idle", the step it is about to make, or "returned"
    reset_log,  \* history: the steps the reset has made, each with how it ended
    reset_result,       \* what _reset_for_rate_limit returned: "none" until it returns, then "True" or "False"
    flag_input, \* the items and the returned flags given to the flag merge
    flag_output,        \* the items after the merge
    dates,      \* the "date" of each indexed item: a string, as the sequence of its characters' codes
    sort_output \* sorted_tweets and highlighted_tweets of process_job

vars == <<store, pending, now, nextId, creating, pc, local, popped, lastRet,
          retOrder, popOrder, listed, listLimit, faults, hb, rtc, twc, exc, vpn, steps,
          vpn_state, vpn_found,
          scraper, spc, result_tweets, range_tweets, seen_ids, cursor,
          consecutive_empty, restart_count, date_ranges, rate_limited, switches,
          emptyRun, failedUrl, retrying, dupSeen, limited, loopExit, max_tweets,
          error, notFound, fetchFailed,
          gen_in, gen_out, compiled, apc, chunks, calls, call_args, item_of, responses,
          chunk_analyses, all_highlighted, analysis,
          reset_mode, rpc, reset_log, reset_result, flag_input, flag_output,
          dates, sort_output>>

queueVars == <<store, pending>>
submitVars == <<nextId, creating>>
callerVars == <<pc, local, popped, lastRet>>
histVars == <<retOrder, popOrder>>
listVars == <<listed, listLimit>>
workerVars == <<faults, hb, rtc, twc, exc, vpn, steps, vpn_state, vpn_found>>
scrapeVars == <<scraper, spc, result_tweets, range_tweets, seen_ids, cursor,
                consecutive_empty, restart_count, date_ranges, rate_limited, switches,
                emptyRun, failedUrl, retrying, dupSeen, limited, loopExit, max_tweets,
                error, notFound, fetchFailed>>
rangeVars == <<gen_in, gen_out>>
analyzeVars == <<compiled, apc, chunks, calls, call_args, item_of, responses,
                 chunk_analyses, all_highlighted, analysis>>
mergeVars == <<flag_input, flag_output, dates, sort_output>>
resetVars == <<reset_mode, rpc, reset_log, reset_result>>
pipeVars == <<scrapeVars, rangeVars, analyzeVars, mergeVars, resetVars>>

InitCommon ==
    /\ store = [i \in JobIds |-> NoJob]
    /\ pending = <<>>
    /\ now = 0
    /\ nextId = 1
    /\ creating = 0
    /\ local = [w \in Workers |-> NoJob]
    /\ popped = [w \in Workers |-> 0]
    /\ lastRet = [w \in Workers |-> [job |-> -1, after |-> 0]]
    /\ retOrder = <<>>
    /\ popOrder = <<>>
    /\ listed = <<>>
    /\ listLimit = 0
    /\ faults = 0
    /\ hb = [w \in Workers |-> [state |-> "none", job |-> 0]]
    /\ rtc = [w \in Workers |-> 0]
    /\ twc = [w \in Workers |-> 0]
    /\ exc = [w \in Workers |-> NoExc]
    /\ vpn = [w \in Workers |-> <<>>]
    /\ vpn_state = [w \in Workers |-> "disconnected"]
    /\ vpn_found = [w \in Workers |-> "none"]
    /\ steps = [w \in Workers |-> <<>>]

NoUrl == [range |-> <<>>, cursor |-> 0, held |-> 0]

\* no scraper has been constructed yet
InitReset ==
    /\ reset_mode = "timeline"
    /\ rpc = "idle"
    /\ reset_log = <<>>
    /\ reset_result = "none"

\* no scrape is running; the instance's restart_count is set apart
InitScrapeIdle ==
    /\ scraper = "none"
    /\ spc = "idle"
    /\ result_tweets = <<>>
    /\ range_tweets = <<>>
    /\ seen_ids = {}
    /\ cursor = 0
    /\ consecutive_empty = 0
    /\ date_ranges = <<>>
    /\ rate_limited = FALSE
    /\ switches = <<>>
    /\ emptyRun = 0
    /\ failedUrl = NoUrl
    /\ retrying = FALSE
    /\ dupSeen = FALSE
    /\ limited = FALSE
    /\ loopExit = "none"
    /\ max_tweets = 1
    /\ error = None
    /\ notFound = "none"
    /\ fetchFailed = FALSE

InitScrape ==
    /\ InitScrapeIdle
    /\ restart_count = 0

InitRanges ==
    /\ gen_in = [start |-> 0, end |-> 0, chunk_days |-> 1]
    /\ gen_out = <<>>

\* analyze has not returned
NoAnalysis == [summary |-> None, highlighted_tweets |-> <<>>, chunks_processed |-> 0,
               error |-> None]

InitAnalyze ==
    /\ compiled = <<>>
    /\ apc = "idle"
    /\ chunks = <<>>
    /\ calls = <<>>
    /\ call_args = <<>>
    /\ item_of = <<>>
    /\ responses = <<>>
    /\ chunk_analyses = <<>>
    /\ all_highlighted = <<>>
    /\ analysis = NoAnalysis

InitMerge ==
    /\ flag_input = [items |-> 0, flags |-> <<>>]
    /\ flag_output = [done |-> FALSE, tweets |-> <<>>, raised |-> FALSE]
    /\ dates = <<>>
    /\ sort_output = [done |-> FALSE, sorted_tweets |-> <<>>, highlighted_tweets |-> <<>>]

\* ------------------------------------------------------------------------
\* The clock
\* ------------------------------------------------------------------------
Tick ==
    /\ now < MaxTime
    /\ now' = now + 1
    /\ UNCHANGED <<queueVars, submitVars, callerVars, histVars, listVars, pipeVars, workerVars>>

\* ------------------------------------------------------------------------
\* create_job: hset of the new record, then rpush of its id
\* ------------------------------------------------------------------------
CreateJobStore(p) ==
    /\ creating = 0
    /\ nextId <= MaxJobs
    /\ store' = update_job(store, Job(nextId, p, now))
    /\ creating' = nextId
    /\ nextId' = nextId + 1
    /\ UNCHANGED <<pending, now, callerVars, histVars, listVars, pipeVars, workerVars>>

CreateJobPush ==
    /\ creating # 0
    /\ pending' = rpush(pending, creating)
    /\ creating' = 0
    /\ UNCHANGED <<store, now, nextId, callerVars, histVars, listVars, pipeVars, workerVars>>

\* ------------------------------------------------------------------------
\* get_next_job, one step per Redis command.  here/onNone/onJob are the
\* caller's positions before the call, after a None return and after a
\* Job return.
\* ------------------------------------------------------------------------
GnPop(w, here, onNone) ==
    /\ pc[w] = here
    /\ IF pending = <<>>
       THEN /\ pc' = [pc EXCEPT ![w] = onNone]
            /\ lastRet' = [lastRet EXCEPT ![w] = [job |-> 0, after |-> Len(popOrder)]]
            /\ UNCHANGED <<pending, popped, popOrder>>
       ELSE /\ pending' = blpop_rest(pending)
            /\ popped' = [popped EXCEPT ![w] = Head(pending)]
            /\ popOrder' = Append(popOrder, Head(pending))
            /\ pc' = [pc EXCEPT ![w] = "gn_get"]
            /\ UNCHANGED lastRet
    /\ UNCHANGED <<store, now, submitVars, local, retOrder, listVars, pipeVars, workerVars>>

GnGet(w, onNone) ==
    /\ pc[w] = "gn_get"
    /\ local' = [local EXCEPT ![w] = get_job(store, popped[w])]
    /\ IF get_job(store, popped[w]) = NoJob
       THEN /\ pc' = [pc EXCEPT ![w] = onNone]
            /\ lastRet' = [lastRet EXCEPT ![w] = [job |-> 0, after |-> Len(popOrder)]]
            /\ popped' = [popped EXCEPT ![w] = 0]
       ELSE /\ pc' = [pc EXCEPT ![w] = "gn_write"]
            /\ UNCHANGED <<lastRet, popped>>
    /\ UNCHANGED <<queueVars, now, submitVars, histVars, listVars, pipeVars, workerVars>>

GnWrite(w, onJob) ==
    /\ pc[w] = "gn_write"
    /\ local' = [local EXCEPT ![w] = claim_fields(local[w], w, now)]
    /\ store' = update_job(store, claim_fields(local[w], w, now))
    /\ retOrder' = Append(retOrder, local[w].id)
    /\ lastRet' = [lastRet EXCEPT ![w] = [job |-> local[w].id, after |-> Len(popOrder)]]
    /\ popped' = [popped EXCEPT ![w] = 0]
    /\ pc' = [pc EXCEPT ![w] = onJob]
    /\ UNCHANGED <<pending, now, submitVars, popOrder, listVars, pipeVars, workerVars>>

\* ------------------------------------------------------------------------
\* The other JobQueue methods, called by a caller w on the Job object it
\* holds.  None of them reads the store before writing.
\* ------------------------------------------------------------------------
ProgressArgs ==
    { [progress |-> 60, step |-> <<"Got", 2, "tweets">>, ts |-> 2, rs |-> 1] }

CompleteArgs ==
    { [analysis |-> "summary", highlighted |-> <<"t2">>, ts |-> 2, rs |-> 1] }

ErrorTexts == {"No tweets found"}

Limits == (0 - NegLimit)..(MaxJobs + 1)

Holding(w) == pc[w] = "idle" /\ local[w] # NoJob

CallUpdateProgress(w, a) ==
    /\ Holding(w)
    /\ local' = [local EXCEPT ![w] = update_progress(local[w], a.progress, a.step, a.ts, a.rs)]
    /\ store' = update_job(store, update_progress(local[w], a.progress, a.step, a.ts, a.rs))
    /\ UNCHANGED <<pending, now, submitVars, pc, popped, lastRet, histVars,
                   listVars, pipeVars, workerVars>>

CallCompleteJob(w, a) ==
    /\ Holding(w)
    /\ local' = [local EXCEPT ![w] =
                    complete_job(local[w], a.analysis, a.highlighted, a.ts, a.rs, now)]
    /\ store' = update_job(store,
                    complete_job(local[w], a.analysis, a.highlighted, a.ts, a.rs, now))
    /\ UNCHANGED <<pending, now, submitVars, pc, popped, lastRet, histVars,
                   listVars, pipeVars, workerVars>>

CallFailJob(w, e) ==
    /\ Holding(w)
    /\ local' = [local EXCEPT ![w] = fail_job(local[w], e, now)]
    /\ store' = update_job(store, fail_job(local[w], e, now))
    /\ UNCHANGED <<pending, now, submitVars, pc, popped, lastRet, histVars,
                   listVars, pipeVars, workerVars>>

CallListJobs(limit) ==
    /\ \E r \in list_jobs_results(store, limit) : listed' = r
    /\ listLimit' = limit
    /\ UNCHANGED <<queueVars, now, submitVars, callerVars, histVars, workerVars, pipeVars>>

\* ------------------------------------------------------------------------
\* Spec: the queue used through its public methods by a submitter and by
\* the callers in Workers, who call the methods in any order.
\* ------------------------------------------------------------------------
Init ==
    /\ InitCommon
    /\ pc = [w \in Workers |-> "idle"]
    /\ InitScrape /\ InitRanges /\ InitAnalyze /\ InitMerge /\ InitReset

CreateStep == CreateJobStore(DefaultParams)
GetNextJobPop == \E w \in Workers : GnPop(w, "idle", "idle")
GetNextJobGet == \E w \in Workers : GnGet(w, "idle")
GetNextJobWrite == \E w \in Workers : GnWrite(w, "idle")
UpdateProgressCall == \E w \in Workers, a \in ProgressArgs : CallUpdateProgress(w, a)
CompleteJobCall == \E w \in Workers, a \in CompleteArgs : CallCompleteJob(w, a)
FailJobCall == \E w \in Workers, e \in ErrorTexts : CallFailJob(w, e)
ListJobsCall == \E limit \in Limits : CallListJobs(limit)

Next ==
    \/ CreateStep
    \/ CreateJobPush
    \/ GetNextJobPop
    \/ GetNextJobGet
    \/ GetNextJobWrite
    \/ UpdateProgressCall
    \/ CompleteJobCall
    \/ FailJobCall

Spec == Init /\ [][Next]_vars

TypeOK ==
    /\ pending \in Seq(JobIds)
    /\ now \in 0..MaxTime
    /\ \A w \in Workers : popped[w] \in 0..MaxJobs

\* ------------------------------------------------------------------------
\* Properties of the queue (checked under Spec)
\* ------------------------------------------------------------------------
NoRepeat(s) == \A i, k \in 1..Len(s) : i # k => s[i] # s[k]

Increasing(s) == \A i, k \in 1..Len(s) : i < k => s[i] < s[k]

InGetNextJob(w) == pc[w] \in {"gn_get", "gn_write"}

\* C1: under every interleaving of create_job and get_next_job calls, a job
\* id is returned by at most one get_next_job call, and no two callers are
\* ever inside get_next_job with the same popped id; with one pending id and
\* two concurrent callers one receives the job and the other None.
C1_AtMostOneClaim ==
    /\ NoRepeat(retOrder)
    /\ \A w1, w2 \in Workers :
          (w1 # w2 /\ popped[w1] # 0) => popped[w1] # popped[w2]
    /\ \A w1, w2 \in Workers :
          (w1 # w2 /\ lastRet[w1].job > 0) => lastRet[w2].job # lastRet[w1].job

\* one job was ever submitted; w1 popped it and is still inside
\* get_next_job when w2's concurrent call came back with None
C1_Witness ==
    \E w1, w2 \in Workers :
        /\ w1 # w2
        /\ nextId = 2 /\ creating = 0
        /\ popOrder = <<1>>
        /\ InGetNextJob(w1) /\ popped[w1] = 1
        /\ lastRet[w2] = [job |-> 0, after |-> 1]

\* C8: a get_next_job call that takes an id takes the head of the pending
\* list and removes it; when it returns a job the stored record has status
\* running, the caller's worker_id and a started_at; a call that finds the
\* list empty returns None and leaves every stored record as it was.
C8_ClaimStamps ==
    [][\A w \in Workers :
        /\ (popped[w] = 0 /\ popped'[w] # 0) =>
              /\ pending # <<>>
              /\ popped'[w] = Head(pending)
              /\ pending' = Tail(pending)
        /\ (lastRet'[w] # lastRet[w] /\ lastRet'[w].job > 0) =>
              /\ popped[w] = lastRet'[w].job
              /\ store'[lastRet'[w].job].status = "running"
              /\ store'[lastRet'[w].job].worker_id = w
              /\ store'[lastRet'[w].job].started_at # NoTime
              /\ pending' = pending
        /\ (lastRet'[w] # lastRet[w] /\ lastRet'[w].job = 0 /\ popped[w] = 0) =>
              /\ pending = <<>>
              /\ store' = store
              /\ pending' = pending
      ]_vars

\* a job was returned to w1 while a second id is still pending, and w2 has
\* come back empty-handed from an earlier call
C8_Witness ==
    \E w1, w2 \in Workers :
        /\ w1 # w2
        /\ lastRet[w1].job > 0
        /\ store[lastRet[w1].job].worker_id = w1
        /\ lastRet[w2].job = 0
        /\ pending # <<>>

\* C9 (as stated): a job submitted earlier is returned by get_next_job
\* before any job submitted later (ids are handed out in submission order).
C9_ReturnedInSubmissionOrder ==
    \A i \in 1..Len(retOrder) :
        \A a \in 1..(retOrder[i] - 1) :
            \E k \in 1..(i - 1) : retOrder[k] = a

\* C9 (amended): create_job stores a pending record and appends its id at
\* the tail, and ids leave the pending list in submission order.
C9_PoppedInSubmissionOrder ==
    /\ [](Increasing(popOrder) /\ Increasing(pending))
    /\ [][/\ (creating = 0 /\ creating' # 0) =>
                /\ store'[creating'].status = "pending"
                /\ store'[creating'].id = creating'
                /\ pending' = pending
          /\ (creating # 0 /\ creating' = 0) =>
                /\ pending' = Append(pending, creating)
                /\ store' = store
         ]_vars

\* two jobs were popped in submission order but returned in the opposite order
C9_Witness ==
    /\ popOrder = <<1, 2>>
    /\ retOrder = <<2, 1>>

\* C5 (as stated): a record whose status is completed or failed never
\* changes again, and a record that has been claimed is written only by the
\* worker stamped in its worker_id.
C5_TerminalImmutable ==
    [][\A j \in JobIds :
        /\ (store[j] # NoJob /\ Terminal(store[j])) => store'[j] = store[j]
        /\ \A w \in Workers :
              (store[j] # NoJob /\ store[j].status # "pending"
                 /\ store'[j] # store[j] /\ local'[w] # local[w])
              => store[j].worker_id = w
      ]_vars

StoredTerminal(w) ==
    /\ local[w] # NoJob
    /\ store[local[w].id] # NoJob
    /\ Terminal(store[local[w].id])

ResultFieldsKept(j) ==
    /\ store'[j].status = store[j].status
    /\ store'[j].completed_at = store[j].completed_at
    /\ store'[j].error = store[j].error
    /\ store'[j].analysis = store[j].analysis
    /\ store'[j].highlighted_tweets = store[j].highlighted_tweets
    /\ store'[j].tweets_scraped = store[j].tweets_scraped
    /\ store'[j].retweets_scraped = store[j].retweets_scraped

\* C6 (as stated): complete_job and fail_job called for a job whose stored
\* status is completed or failed leave its status, completed_at, error and
\* result fields unchanged.
C6_TerminalCallsAreNoOps ==
    [][\A w \in Workers :
        (/\ StoredTerminal(w)
         /\ \/ \E a \in CompleteArgs : CallCompleteJob(w, a)
            \/ \E e \in ErrorTexts : CallFailJob(w, e))
        => ResultFieldsKept(local[w].id)
      ]_vars

\* C7 (as stated): update_progress called for a job whose stored status is
\* completed or failed leaves the stored record unchanged.
C7_ProgressOnlyNonTerminal ==
    [][\A w \in Workers :
        (/\ StoredTerminal(w)
         /\ \E a \in ProgressArgs : CallUpdateProgress(w, a))
        => store'[local[w].id] = store[local[w].id]
      ]_vars

\* ------------------------------------------------------------------------
\* SpecList: submissions at advancing clock times, claims and failures that
\* vary the status of the records, and list_jobs calls.
\* ------------------------------------------------------------------------
\* one caller claims and fails jobs while the listing endpoint is polled
ListCaller == "w1"
ListGetNextJobPop == GnPop(ListCaller, "idle", "idle")
ListGetNextJobGet == GnGet(ListCaller, "idle")
ListGetNextJobWrite == GnWrite(ListCaller, "idle")
ListFailJobCall == \E e \in ErrorTexts : CallFailJob(ListCaller, e)

Next_List ==
    \/ Tick
    \/ CreateStep
    \/ CreateJobPush
    \/ ListGetNextJobPop
    \/ ListGetNextJobGet
    \/ ListGetNextJobWrite
    \/ ListFailJobCall
    \/ ListJobsCall

SpecList == Init /\ [][Next_List]_vars

Min(a, b) == IF a < b THEN a ELSE b

Max(a, b) == IF a > b THEN a ELSE b

InResult(r, x) == \E i \in 1..Len(r) : r[i] = x

\* r is in created_at-descending order, holds stored records only, each
\* once, and no record left out was created at a later clock time than
\* one that is in (ids are handed out in submission order)
RecentFirst(r, st) ==
    /\ \A i, k \in 1..Len(r) : i < k => StrLeq(r[k].created_at, r[i].created_at)
    /\ \A i \in 1..Len(r) : r[i].id \in StoredIds(st) /\ r[i] = st[r[i].id]
    /\ \A i, k \in 1..Len(r) : i # k => r[i].id # r[k].id
    /\ \A x \in StoredIds(st) : \A i \in 1..Len(r) :
          InResult(r, st[x]) \/ x < r[i].id \/ st[x].created_at = r[i].created_at

ListCalled == listed' # listed \/ listLimit' # listLimit

\* C10 (as stated): list_jobs(limit) returns at most limit jobs (none for a
\* limit below 1), in created_at-descending order, and they are the limit
\* most recently created stored jobs whatever their status.
C10_ListRecent ==
    [][ListCalled =>
          /\ Len(listed') <= Max(listLimit', 0)
          /\ Len(listed') = Min(Max(listLimit', 0), Cardinality(StoredIds(store)))
          /\ RecentFirst(listed', store)
      ]_vars

\* What list_jobs does for every limit: for limit >= 0 the statement above;
\* for a negative limit jobs[:limit] returns the most recent n + limit of
\* the n stored jobs (none when n + limit <= 0).
ListJobsSliced ==
    [][ListCalled =>
          /\ listLimit' >= 0 =>
                /\ Len(listed') <= listLimit'
                /\ Len(listed') = Min(listLimit', Cardinality(StoredIds(store)))
          /\ listLimit' < 0 =>
                Len(listed') =
                    IF Cardinality(StoredIds(store)) + listLimit' > 0
                    THEN Cardinality(StoredIds(store)) + listLimit' ELSE 0
          /\ RecentFirst(listed', store)
      ]_vars

\* a list call with limit 1 cut the older of two jobs created at different
\* clock times, one of them claimed and the other still pending
ListJobsCutOlder ==
    /\ listLimit = 1
    /\ Len(listed) = 1
    /\ StoredIds(store) = {1, 2}
    /\ store[1].created_at # store[2].created_at
    /\ store[1].status # store[2].status
    /\ listed[1].id = 2

\* ------------------------------------------------------------------------
\* The worker (src/worker.py): Worker.run and Worker.process_job, one step
\* per external call.  pc[w] names the statement worker w executes next.
\* ------------------------------------------------------------------------
\* the worker processes started in SpecWorker (python worker.py --id w1)
Fleet == {"w1"}

RetweetCounts == {0, 2}
TweetCounts == {0, 5}

\* heartbeat channel of the queue, written by register_worker and
\* worker_heartbeat
register_worker(h, w) == [h EXCEPT ![w] = [state |-> "registered", job |-> 0]]

worker_heartbeat(h, w, state, job) == [h EXCEPT ![w] = [state |-> state, job |-> job]]

\* statements inside the try block of process_job whose call can raise
TryPcs == {"p_up10", "p_rt", "p_up30", "p_up40", "p_search", "p_up60", "p_check", "p_up70"}

\* statements of run (outside process_job's try block) whose call can raise
LoopPcs == {"loop", "claim", "gn_get", "gn_write", "hb_busy", "p_except", "p_ret"}

\* faulty variant: process_job without its try/except
on_raise_unguarded(pcv) ==
    IF pcv = "start" THEN "dead" ELSE "sleep"

\* where control goes when the call at pcv raises an Exception: nowhere
\* for register_worker (before the loop), to process_job's handler inside
\* its try block, to run's handler (sleep 5 s, loop again) elsewhere
on_raise(pcv) ==
    IF pcv = "start" THEN "dead"
    ELSE IF pcv \in TryPcs THEN "p_except"
    ELSE "sleep"

exception_text(pcv) ==
    IF pcv \in {"p_rt", "p_search"} THEN "ScrapeError" ELSE "ConnectionError"

\* GeminiAnalyzer.analyze(compiled_tweets, username, tweet_count,
\* custom_prompt) called as analyze(indexed_tweets=, username=,
\* custom_prompt=): Python rejects the call before the body runs
analyze_call == "TypeError"

progress_args_search_at_20(pcv, rt, tw) ==
    CASE pcv = "p_up10" -> [progress |-> 10, step |-> <<"Scraping retweets...">>, ts |-> 0, rs |-> 0]
      [] pcv = "p_up30" -> [progress |-> 30, step |-> <<"Got", rt, "retweets">>, ts |-> 0, rs |-> rt]
      [] pcv = "p_up40" -> [progress |-> 20, step |-> <<"Scraping tweets...">>, ts |-> 0, rs |-> 0]
      [] pcv = "p_up60" -> [progress |-> 60, step |-> <<"Got", tw, "tweets">>, ts |-> tw, rs |-> rt]
      [] pcv = "p_up70" -> [progress |-> 70, step |-> <<"Analyzing with Gemini...">>, ts |-> 0, rs |-> 0]

\* the arguments of each update_progress call of process_job
progress_args(pcv, rt, tw) ==
    CASE pcv = "p_up10" -> [progress |-> 10, step |-> <<"Scraping retweets...">>, ts |-> 0, rs |-> 0]
      [] pcv = "p_up30" -> [progress |-> 30, step |-> <<"Got", rt, "retweets">>, ts |-> 0, rs |-> rt]
      [] pcv = "p_up40" -> [progress |-> 40, step |-> <<"Scraping tweets...">>, ts |-> 0, rs |-> 0]
      [] pcv = "p_up60" -> [progress |-> 60, step |-> <<"Got", tw, "tweets">>, ts |-> tw, rs |-> rt]
      [] pcv = "p_up70" -> [progress |-> 70, step |-> <<"Analyzing with Gemini...">>, ts |-> 0, rs |-> 0]

WantsSearch(job) == job.include_tweets \/ job.include_replies

after_progress_swapped(pcv, job) ==
    CASE pcv = "p_up10" -> "p_search"
      [] pcv = "p_up30" -> "p_check"
      [] pcv = "p_up40" -> "p_search"
      [] pcv = "p_up60" -> (IF job.include_retweets THEN "p_rt" ELSE "p_check")
      [] pcv = "p_up70" -> "p_disc"

after_progress(pcv, job) ==
    CASE pcv = "p_up10" -> "p_rt"
      [] pcv = "p_up30" -> (IF WantsSearch(job) THEN "p_up40" ELSE "p_check")
      [] pcv = "p_up40" -> "p_search"
      [] pcv = "p_up60" -> "p_check"
      [] pcv = "p_up70" -> "p_disc"

\* the call that process_job makes on reaching pcv: scrape_retweets,
\* scrape_user, or analyze
step_started(pcv) ==
    CASE pcv = "p_rt" -> <<"timeline_start">>
      [] pcv = "p_search" -> <<"search_start">>
      [] pcv = "p_analyze" -> <<"analysis_start">>
      [] OTHER -> <<>>

WRegister(w) ==
    /\ pc[w] = "start"
    /\ hb' = register_worker(hb, w)
    /\ pc' = [pc EXCEPT ![w] = "loop"]
    /\ UNCHANGED <<queueVars, now, submitVars, local, popped, lastRet, histVars, listVars, pipeVars,
                   faults, rtc, twc, exc, vpn, steps, vpn_state, vpn_found>>

WHeartbeatIdle(w) ==
    /\ pc[w] = "loop"
    /\ hb' = worker_heartbeat(hb, w, "idle", 0)
    /\ pc' = [pc EXCEPT ![w] = "claim"]
    /\ local' = [local EXCEPT ![w] = NoJob]
    /\ exc' = [exc EXCEPT ![w] = NoExc]
    /\ rtc' = [rtc EXCEPT ![w] = 0]
    /\ twc' = [twc EXCEPT ![w] = 0]
    /\ vpn' = [vpn EXCEPT ![w] = <<>>]
    /\ vpn_found' = [vpn_found EXCEPT ![w] = "none"]
    /\ UNCHANGED vpn_state
    /\ steps' = [steps EXCEPT ![w] = <<>>]
    /\ UNCHANGED <<queueVars, now, submitVars, popped, lastRet, histVars, listVars, pipeVars, faults>>

WSleep(w) ==
    /\ pc[w] = "sleep"
    /\ pc' = [pc EXCEPT ![w] = "loop"]
    /\ UNCHANGED <<queueVars, now, submitVars, local, popped, lastRet, histVars, listVars, pipeVars,
                   workerVars>>

WClaimPop(w) == GnPop(w, "claim", "loop")

WClaimGet(w) == GnGet(w, "loop")

WClaimWrite(w) == GnWrite(w, "hb_busy")

WHeartbeatBusy_skipped(w) ==
    /\ pc[w] = "hb_busy"
    /\ pc' = [pc EXCEPT ![w] = "p_begin"]
    /\ UNCHANGED <<queueVars, now, submitVars, local, popped, lastRet, histVars, listVars, pipeVars,
                   workerVars>>

\* self.queue.worker_heartbeat(self.worker_id, "busy", job.id)
WHeartbeatBusy(w) ==
    /\ pc[w] = "hb_busy"
    /\ hb' = worker_heartbeat(hb, w, "busy", local[w].id)
    /\ pc' = [pc EXCEPT ![w] = "p_begin"]
    /\ UNCHANGED <<queueVars, now, submitVars, local, popped, lastRet, histVars, listVars, pipeVars,
                   faults, rtc, twc, exc, vpn, steps, vpn_state, vpn_found>>

\* datetime.strptime of the job's start_date / end_date
PParseDates(w) ==
    /\ pc[w] = "p_begin"
    /\ IF ~local[w].dates_valid
       THEN /\ exc' = [exc EXCEPT ![w] = [text |-> "ValueError", job |-> local[w].id]]
            /\ pc' = [pc EXCEPT ![w] = "p_except"]
       ELSE /\ pc' = [pc EXCEPT ![w] =
                        IF local[w].include_retweets THEN "p_up10"
                        ELSE IF WantsSearch(local[w]) THEN "p_up40" ELSE "p_check"]
            /\ UNCHANGED exc
    /\ UNCHANGED <<queueVars, now, submitVars, local, popped, lastRet, histVars, listVars, pipeVars,
                   faults, hb, rtc, twc, vpn, steps, vpn_state, vpn_found>>

PUpdateProgress(w) ==
    /\ pc[w] \in {"p_up10", "p_up30", "p_up40", "p_up60", "p_up70"}
    /\ LET a == progress_args(pc[w], rtc[w], twc[w])
           j == update_progress(local[w], a.progress, a.step, a.ts, a.rs)
       IN /\ local' = [local EXCEPT ![w] = j]
          /\ store' = update_job(store, j)
    /\ pc' = [pc EXCEPT ![w] = after_progress(pc[w], local[w])]
    /\ steps' = [steps EXCEPT ![w] = steps[w] \o step_started(after_progress(pc[w], local[w]))]
    /\ UNCHANGED <<pending, now, submitVars, popped, lastRet, histVars, listVars, pipeVars,
                   faults, hb, rtc, twc, exc, vpn, vpn_state, vpn_found>>

\* the VPN once a scrape has returned: a scrape that made a reset
\* (restart_count > 0) disconnects the VPN at its end, another leaves it
after_scrape(state, resets) == IF resets THEN "disconnected" ELSE state

\* scrape_retweets returned a result with total_scraped = n
PScrapeRetweets(w, n, resets) ==
    /\ pc[w] = "p_rt"
    /\ vpn_state' = [vpn_state EXCEPT ![w] = after_scrape(vpn_state[w], resets)]
    /\ rtc' = [rtc EXCEPT ![w] = n]
    /\ pc' = [pc EXCEPT ![w] = "p_up30"]
    /\ steps' = [steps EXCEPT ![w] = Append(steps[w], "timeline_end")]
    /\ UNCHANGED <<queueVars, now, submitVars, local, popped, lastRet, histVars, listVars, pipeVars,
                   faults, hb, twc, exc, vpn, vpn_found>>

\* scrape_user returned a result with total_scraped = n
PScrapeSearch(w, n, resets) ==
    /\ pc[w] = "p_search"
    /\ vpn_state' = [vpn_state EXCEPT ![w] = after_scrape(vpn_state[w], resets)]
    /\ twc' = [twc EXCEPT ![w] = n]
    /\ pc' = [pc EXCEPT ![w] = "p_up60"]
    /\ steps' = [steps EXCEPT ![w] = Append(steps[w], "search_end")]
    /\ UNCHANGED <<queueVars, now, submitVars, local, popped, lastRet, histVars, listVars, pipeVars,
                   faults, hb, rtc, exc, vpn, vpn_found>>

PCheck_no_return(w) ==
    /\ pc[w] = "p_check"
    /\ IF rtc[w] + twc[w] = 0
       THEN /\ local' = [local EXCEPT ![w] = fail_job(local[w], "No tweets found", now)]
            /\ store' = update_job(store, fail_job(local[w], "No tweets found", now))
       ELSE UNCHANGED <<local, store>>
    /\ pc' = [pc EXCEPT ![w] = "p_up70"]
    /\ UNCHANGED <<pending, now, submitVars, popped, lastRet, histVars, listVars, pipeVars, workerVars>>

\* if not raw_tweets: fail_job(job, "No tweets found"); return
PCheck(w) ==
    /\ pc[w] = "p_check"
    /\ IF rtc[w] + twc[w] = 0
       THEN /\ local' = [local EXCEPT ![w] = fail_job(local[w], "No tweets found", now)]
            /\ store' = update_job(store, fail_job(local[w], "No tweets found", now))
            /\ pc' = [pc EXCEPT ![w] = "p_ret"]
       ELSE /\ pc' = [pc EXCEPT ![w] = "p_up70"]
            /\ UNCHANGED <<local, store>>
    /\ UNCHANGED <<pending, now, submitVars, popped, lastRet, histVars, listVars, pipeVars, workerVars>>

PDisconnectVpn(w) ==
    /\ pc[w] = "p_disc"
    /\ vpn' = [vpn EXCEPT ![w] = Append(vpn[w], "disconnect")]
    /\ vpn_found' = [vpn_found EXCEPT ![w] = vpn_state[w]]
    /\ vpn_state' = [vpn_state EXCEPT ![w] = "disconnected"]
    /\ pc' = [pc EXCEPT ![w] = "p_analyze"]
    /\ steps' = [steps EXCEPT ![w] = steps[w] \o step_started("p_analyze")]
    /\ UNCHANGED <<queueVars, now, submitVars, local, popped, lastRet, histVars, listVars, pipeVars,
                   faults, hb, rtc, twc, exc>>

PAnalyze(w) ==
    /\ pc[w] = "p_analyze"
    /\ exc' = [exc EXCEPT ![w] = [text |-> analyze_call, job |-> local[w].id]]
    /\ pc' = [pc EXCEPT ![w] = "p_reconn"]
    /\ steps' = [steps EXCEPT ![w] = Append(steps[w], "analysis_end")]
    /\ UNCHANGED <<queueVars, now, submitVars, local, popped, lastRet, histVars, listVars, pipeVars,
                   faults, hb, rtc, twc, vpn, vpn_state, vpn_found>>

\* finally: self._reconnect_vpn(); the exception then reaches the handler
PReconnectVpn(w) ==
    /\ pc[w] = "p_reconn"
    /\ vpn' = [vpn EXCEPT ![w] = Append(vpn[w], "connect")]
    /\ vpn_state' = [vpn_state EXCEPT ![w] = "connected"]
    /\ pc' = [pc EXCEPT ![w] = "p_except"]
    /\ UNCHANGED <<queueVars, now, submitVars, local, popped, lastRet, histVars, listVars, pipeVars,
                   faults, hb, rtc, twc, exc, steps, vpn_found>>

\* except Exception as e: self.queue.fail_job(job, str(e))
PExcept(w) ==
    /\ pc[w] = "p_except"
    /\ local' = [local EXCEPT ![w] = fail_job(local[w], exc[w].text, now)]
    /\ store' = update_job(store, fail_job(local[w], exc[w].text, now))
    /\ pc' = [pc EXCEPT ![w] = "p_ret"]
    /\ UNCHANGED <<pending, now, submitVars, popped, lastRet, histVars, listVars, pipeVars, workerVars>>

WHeartbeatDone(w) ==
    /\ pc[w] = "p_ret"
    /\ hb' = worker_heartbeat(hb, w, "idle", 0)
    /\ pc' = [pc EXCEPT ![w] = "loop"]
    /\ UNCHANGED <<queueVars, now, submitVars, local, popped, lastRet, histVars, listVars, pipeVars,
                   faults, rtc, twc, exc, vpn, steps, vpn_state, vpn_found>>

\* the VPN once the call at pcv has raised: a scrape that raises after a
\* reset has connected the VPN and does not reach its closing disconnect
on_raise_vpn(pcv, state, resets) ==
    IF pcv \in {"p_rt", "p_search"} /\ resets THEN "connected" ELSE state

\* the external call at pc[w] raises an Exception instead of returning
ExternalRaise(w) ==
    /\ faults < MaxFaults
    /\ pc[w] \in {"start"} \cup TryPcs \cup LoopPcs
    /\ pc[w] = "p_check" => rtc[w] + twc[w] = 0
    /\ faults' = faults + 1
    /\ pc' = [pc EXCEPT ![w] = on_raise(pc[w])]
    /\ exc' = IF pc[w] \in TryPcs
              THEN [exc EXCEPT ![w] = [text |-> exception_text(pc[w]), job |-> local[w].id]]
              ELSE exc
    /\ popped' = [popped EXCEPT ![w] = 0]
    /\ local' = IF pc[w] \in {"gn_get", "gn_write"} THEN [local EXCEPT ![w] = NoJob] ELSE local
    /\ \E resets \in BOOLEAN :
           vpn_state' = [vpn_state EXCEPT ![w] = on_raise_vpn(pc[w], vpn_state[w], resets)]
    /\ UNCHANGED <<queueVars, now, submitVars, lastRet, histVars, listVars, pipeVars, hb, rtc, twc, vpn, steps,
                   vpn_found>>

\* the VPN calls on record once KeyboardInterrupt has cut short the call at
\* pcv.  _disconnect_vpn catches Exception only, so the interrupt passes
\* through it with the disconnect command issued or not; inside the try
\* block the finally clause issues the reconnect on the way out.
interrupted_vpn(pcv, log, issued) ==
    IF pcv = "p_disc" THEN (IF issued THEN Append(log, "disconnect") ELSE log)
    ELSE IF pcv \in {"p_analyze", "p_reconn"} THEN Append(log, "connect")
    ELSE log

\* the VPN once KeyboardInterrupt has cut short the call at pcv
interrupted_state(pcv, state, issued) ==
    IF pcv = "p_disc" THEN (IF issued THEN "disconnected" ELSE state)
    ELSE IF pcv \in {"p_analyze", "p_reconn"} THEN "connected"
    ELSE state

\* KeyboardInterrupt: not an Exception; run sets running = False and returns,
\* and the process and its memory are gone
WInterrupt(w) ==
    /\ pc[w] \notin {"start", "dead", "stopped"}
    /\ pc' = [pc EXCEPT ![w] = "stopped"]
    /\ local' = [local EXCEPT ![w] = NoJob]
    /\ popped' = [popped EXCEPT ![w] = 0]
    /\ exc' = [exc EXCEPT ![w] = NoExc]
    /\ rtc' = [rtc EXCEPT ![w] = 0]
    /\ twc' = [twc EXCEPT ![w] = 0]
    /\ \E issued \in BOOLEAN :
           /\ vpn' = [vpn EXCEPT ![w] = interrupted_vpn(pc[w], vpn[w], issued)]
           /\ vpn_state' = [vpn_state EXCEPT ![w] =
                               interrupted_state(pc[w], vpn_state[w], issued)]
    /\ vpn_found' = [vpn_found EXCEPT ![w] = "none"]
    /\ steps' = [steps EXCEPT ![w] = <<>>]
    /\ UNCHANGED <<queueVars, now, submitVars, lastRet, histVars, listVars, pipeVars, faults, hb>>

InitWorker ==
    /\ InitCommon
    /\ pc = [w \in Workers |-> "start"]
    /\ InitScrape /\ InitRanges /\ InitAnalyze /\ InitMerge /\ InitReset

Submit == \E p \in JobParams : CreateJobStore(p)
Register == \E w \in Fleet : WRegister(w)
HeartbeatIdle == \E w \in Fleet : WHeartbeatIdle(w)
Sleep == \E w \in Fleet : WSleep(w)
ClaimPop == \E w \in Fleet : WClaimPop(w)
ClaimGet == \E w \in Fleet : WClaimGet(w)
ClaimWrite == \E w \in Fleet : WClaimWrite(w)
HeartbeatBusy == \E w \in Fleet : WHeartbeatBusy(w)
ParseDates == \E w \in Fleet : PParseDates(w)
UpdateProgress == \E w \in Fleet : PUpdateProgress(w)
ScrapeRetweets == \E w \in Fleet, n \in RetweetCounts, resets \in BOOLEAN : PScrapeRetweets(w, n, resets)
ScrapeSearch == \E w \in Fleet, n \in TweetCounts, resets \in BOOLEAN : PScrapeSearch(w, n, resets)
Check == \E w \in Fleet : PCheck(w)
DisconnectVpn == \E w \in Fleet : PDisconnectVpn(w)
Analyze == \E w \in Fleet : PAnalyze(w)
ReconnectVpn == \E w \in Fleet : PReconnectVpn(w)
Except == \E w \in Fleet : PExcept(w)
HeartbeatDone == \E w \in Fleet : WHeartbeatDone(w)
Raise == \E w \in Fleet : ExternalRaise(w)
Interrupt == \E w \in Fleet : WInterrupt(w)

WorkerStep(w) ==
    \/ WRegister(w) \/ WHeartbeatIdle(w) \/ WSleep(w)
    \/ WClaimPop(w) \/ WClaimGet(w) \/ WClaimWrite(w) \/ WHeartbeatBusy(w)
    \/ PParseDates(w) \/ PUpdateProgress(w)
    \/ (\E n \in RetweetCounts, resets \in BOOLEAN : PScrapeRetweets(w, n, resets))
    \/ (\E n \in TweetCounts, resets \in BOOLEAN : PScrapeSearch(w, n, resets))
    \/ PCheck(w) \/ PDisconnectVpn(w) \/ PAnalyze(w) \/ PReconnectVpn(w)
    \/ PExcept(w) \/ WHeartbeatDone(w)

Next_Worker ==
    \/ Submit
    \/ CreateJobPush
    \/ Register
    \/ HeartbeatIdle
    \/ Sleep
    \/ ClaimPop
    \/ ClaimGet
    \/ ClaimWrite
    \/ HeartbeatBusy
    \/ ParseDates
    \/ UpdateProgress
    \/ ScrapeRetweets
    \/ ScrapeSearch
    \/ Check
    \/ DisconnectVpn
    \/ Analyze
    \/ ReconnectVpn
    \/ Except
    \/ HeartbeatDone
    \/ Raise
    \/ Interrupt

SpecWorker == InitWorker /\ [][Next_Worker]_vars

\* the worker processes are scheduled, and a submission in progress finishes
FairSpecWorker ==
    /\ SpecWorker
    /\ \A w \in Fleet : WF_vars(WorkerStep(w))
    /\ WF_vars(CreateJobPush)

\* ------------------------------------------------------------------------
\* Properties of the worker (checked under SpecWorker / FairSpecWorker)
\* ------------------------------------------------------------------------
Alive(w) == pc[w] \notin {"dead", "stopped"}

Submitted(j) == store[j] # NoJob /\ j < nextId /\ creating # j

Finished(j) == store[j] # NoJob /\ Terminal(store[j])

\* C2 (as stated): while the workers keep running, every job that create_job
\* has submitted eventually has the stored status completed or failed.
C2_EveryJobTerminates ==
    (\A w \in Fleet : []Alive(w)) =>
        (\A j \in JobIds : (Submitted(j) ~> Finished(j)))

ProcessPcs ==
    {"p_begin", "p_up10", "p_rt", "p_up30", "p_up40", "p_search", "p_up60", "p_check",
     "p_up70", "p_disc", "p_analyze", "p_reconn", "p_except"}

OriginalsOnly(job) ==
    job.include_tweets /\ ~job.include_retweets /\ ~job.include_replies /\ job.dates_valid

\* C3 (as stated): an originals-only job whose scrape returns 5 originals,
\* with no call failing, ends stored as completed with tweets_scraped = 5
\* and the item of index 2 as its only highlighted item.
C3_EndToEndCompletes ==
    \A w \in Fleet :
        (/\ pc[w] = "p_ret"
         /\ faults = 0
         /\ OriginalsOnly(local[w])
         /\ twc[w] = 5 /\ rtc[w] = 0)
        => /\ store[local[w].id].status = "completed"
           /\ store[local[w].id].tweets_scraped = 5
           /\ store[local[w].id].highlighted_tweets = <<2>>

\* C4 (as stated): no exception raised by any step of run, registration
\* and heartbeats included, terminates the worker, and once process_job is
\* over every exception raised in its pipeline is recorded in the job as
\* failed with the exception text.
C4_NoExceptionStopsWorker ==
    \A w \in Fleet :
        /\ pc[w] # "dead"
        /\ (exc[w] # NoExc /\ pc[w] \notin ProcessPcs) =>
              /\ store[exc[w].job].status = "failed"
              /\ store[exc[w].job].error = exc[w].text

\* C4 (amended): an Exception raised inside process_job's try block reaches
\* its handler; when the handler's fail_job returns the job is stored as
\* failed with the exception text; an Exception raised in the loop body of
\* run sends the worker to sleep and then back to polling; the worker ends
\* only when register_worker raises (before the loop) or on
\* KeyboardInterrupt.
C4_LoopSurvivesExceptions ==
    [][\A w \in Fleet :
        /\ (exc[w] = NoExc /\ exc'[w] # NoExc) => pc'[w] \in {"p_except", "p_reconn"}
        /\ (pc[w] = "p_except" /\ pc'[w] = "p_ret") =>
              /\ store'[exc[w].job].status = "failed"
              /\ store'[exc[w].job].error = exc[w].text
        /\ (pc[w] \in LoopPcs /\ ExternalRaise(w)) => pc'[w] = "sleep"
        /\ pc[w] = "sleep" => pc'[w] \in {"sleep", "loop", "stopped"}
        /\ (pc[w] # "dead" /\ pc'[w] = "dead") => (pc[w] = "start" /\ ExternalRaise(w))
        /\ (pc[w] # "stopped" /\ pc'[w] = "stopped") => WInterrupt(w)
      ]_vars

\* job 1 failed with the text of the exception raised by a scrape, and the
\* same worker has gone on to claim job 2
C4_Witness ==
    \E w \in Fleet :
        /\ store[1] # NoJob
        /\ store[1].status = "failed"
        /\ store[1].error = "ScrapeError"
        /\ retOrder = <<1, 2>>
        /\ pc[w] = "p_begin"
        /\ local[w].id = 2

\* ------------------------------------------------------------------------
\* The paged scrapers: NitterTimelineScraper.scrape_retweets,
\* NitterSearchScraper.scrape_user with _scrape_date_range, and
\* NitterScraper.scrape_user.  A post is its id; items that the parser
\* rejects or the filters skip are left out of the page.  The instance
\* answers every fetch with a rate-limit signal, an error, or a page.
MaxPosts == 2
MaxPageLen == 1
MaxCursor == 1
MaxTweets == 2
MaxRestarts == 1
MaxWindows == 2
DayParts == 2

PostIds == 1..MaxPosts
Cursors == 0..MaxCursor
Pages == UNION {[1..n -> PostIds] : n \in 0..MaxPageLen}
baseVars == <<queueVars, now, submitVars, callerVars, histVars, listVars, workerVars>>

VPN_COUNTRIES == <<"us", "gb", "de", "nl", "se", "ch", "ca", "fr", "jp", "au",
                   "sg", "br", "it", "es", "pl", "fi", "no", "dk", "at", "be">>

\* self.VPN_COUNTRIES[self.restart_count % len(self.VPN_COUNTRIES)]
switch_vpn(count) == VPN_COUNTRIES[(count % Len(VPN_COUNTRIES)) + 1]

\* strftime('%Y-%m-%d') of an instant counted in parts of a day
strftime(t) == t \div DayParts

\* timedelta(days=d)
timedelta(d) == d * DayParts

RECURSIVE generate_date_ranges(_, _, _)
generate_date_ranges(current, end_date, chunk_days) ==
    IF current < end_date
    THEN LET chunk_end == Min(current + timedelta(chunk_days), end_date)
         IN  <<[since |-> strftime(current), until |-> strftime(chunk_end)]>>
                 \o generate_date_ranges(chunk_end, end_date, chunk_days)
    ELSE <<>>

\* list.reverse()
reverse(s) == [i \in 1..Len(s) |-> s[Len(s) + 1 - i]]

\* the page loops give up after this many zero-new pages in a row
search_empty_limit == 1
timeline_empty_limit == 5
basic_empty_limit == 3
\* faulty variant: one more page is fetched before the loop gives up
empty_limit_late(s) ==
    CASE s = "search" -> search_empty_limit + 1
      [] s = "timeline" -> timeline_empty_limit + 1
      [] OTHER -> basic_empty_limit + 1

empty_limit(s) ==
    CASE s = "search" -> search_empty_limit
      [] s = "timeline" -> timeline_empty_limit
      [] OTHER -> basic_empty_limit

\* how many zero-new pages in a row end the loop, counting this one
gives_up(s, run) == run >= empty_limit(s)

\* faulty variant: the id is not remembered
seen_add_forgotten(seen, id) == seen

\* seen_ids.add(tweet.id)
seen_add(seen, id) == seen \cup {id}

\* the posts the scrape holds: result.tweets and, inside a window, its tweets
Held == result_tweets \o range_tweets

\* the item loop of one page; only the basic scraper looks at the cap here
RECURSIVE parse_items(_, _, _)
parse_items(s, st, items) ==
    IF items = <<>> THEN st
    ELSE LET id == Head(items)
         IN  IF s = "basic" /\ Len(st.tweets) >= max_tweets THEN st
             ELSE IF id \in st.seen
             THEN parse_items(s, [st EXCEPT !.dup = TRUE], Tail(items))
             ELSE parse_items(s, [tweets |-> Append(st.tweets, id),
                                  seen |-> seen_add(st.seen, id),
                                  new |-> st.new + 1,
                                  dup |-> st.dup], Tail(items))

\* the window and cursor the next request is built from
fetch_url == [range |-> IF scraper = "search" /\ date_ranges # <<>>
                        THEN <<Head(date_ranges)>> ELSE <<>>,
              cursor |-> cursor,
              held |-> Len(Held)]

\* faulty variant: the retry starts again from the first page
cursor_after_reset_lost(c) == 0

\* a successful reset leaves the cursor alone: page -= 1; continue
cursor_after_reset(c) == c

\* self.restart_count += 1
next_restart_count(c) == c + 1

\* faulty variant: no reset is ever refused
reset_refused_never(count) == FALSE

\* if self.restart_count > self.max_restarts: return False
reset_refused(count) == count > MaxRestarts

\* constructing a scraper and entering its scrape method.  process_job
\* runs the timeline scraper and then the search scraper.
ScrapeStart(s) ==
    /\ \/ scraper = "none" /\ spc = "idle"
       \/ scraper = "timeline" /\ spc = "done" /\ s = "search"
    /\ scraper' = s
    /\ result_tweets' = <<>>
    /\ range_tweets' = <<>>
    /\ seen_ids' = {}
    /\ cursor' = 0
    /\ consecutive_empty' = 0
    /\ restart_count' = 0
    /\ rate_limited' = FALSE
    /\ emptyRun' = 0
    /\ failedUrl' = NoUrl
    /\ retrying' = FALSE
    /\ dupSeen' = FALSE
    /\ loopExit' = "none"
    /\ IF s = "search"
       THEN /\ \E n \in 1..MaxWindows :
                  date_ranges' = reverse(generate_date_ranges(0, timedelta(n), 1))
            /\ spc' = "range"
       ELSE /\ date_ranges' = <<>>
            /\ spc' = "fetch"
    /\ \E cap \in 1..MaxTweets : max_tweets' = cap
    /\ error' = None
    /\ notFound' = "none"
    /\ fetchFailed' = FALSE
    /\ UNCHANGED <<switches, limited>>
    /\ UNCHANGED <<baseVars, rangeVars, analyzeVars, mergeVars, resetVars>>

\* the instance starts to answer every request with a rate-limit signal
EnvLimit ==
    /\ spc \in {"range", "fetch"}
    /\ ~limited
    /\ limited' = TRUE
    /\ retrying' = retrying
    /\ UNCHANGED <<scraper, spc, result_tweets, range_tweets, seen_ids, cursor,
                   consecutive_empty, restart_count, date_ranges, rate_limited,
                   switches, emptyRun, failedUrl, dupSeen, loopExit>>
    /\ UNCHANGED <<max_tweets, fetchFailed, error, notFound, baseVars, rangeVars, analyzeVars, mergeVars, resetVars>>

\* the text the page loop leaves as its error on a response of the given
\* kind, None where it leaves none
error_text(s, kind) ==
    CASE kind = "rate" ->
             (IF s = "basic" THEN "Rate limited by Nitter instance"
              ELSE "Rate limited (reset failed)")
      [] kind = "notfound" -> (IF s = "basic" THEN "User not found" ELSE "HTTP 404")
      [] kind = "other" -> "HTTP 500"
      [] kind = "timeout" -> (IF s = "basic" THEN "Request timed out" ELSE "Timeout")
      [] OTHER -> None

result_error_on_exit(s, rl, err, old) == "Reached max tweets limit"

\* ScrapeResult.error once the page loop is left with err: the timeline and
\* the basic scraper write the loop's error to the result; scrape_user of
\* the search scraper receives the window's error and does not read it, and
\* writes "Rate limited" when the window reports a rate limit
result_error(s, rl, err, old) ==
    IF s = "search" THEN (IF rl THEN "Rate limited" ELSE old)
    ELSE IF err # None THEN err ELSE old

\* what the history of not-found responses becomes with one more request,
\* answered by a response of the given kind
after_request(nf, kind) ==
    IF nf # "none" THEN "refetched"
    ELSE IF kind = "notfound" THEN "seen" ELSE "none"

extend_skipped(list, more) == list

\* result.tweets.extend(tweets)
extend(list, more) == list \o more

\* leaving the page loop.  The search scraper returns from _scrape_date_range
\* to scrape_user, which extends result.tweets and goes on to the next window
\* unless the window was rate limited; the others fall through to the end.
LeaveLoop(why, tweets, rl, err) ==
    /\ loopExit' = why
    /\ error' = result_error(scraper, rl, err, error)
    /\ retrying' = FALSE
    /\ failedUrl' = NoUrl
    /\ IF scraper = "search"
       THEN /\ result_tweets' = extend(result_tweets, tweets)
            /\ range_tweets' = <<>>
            /\ cursor' = 0
            /\ rate_limited' = rl
            /\ IF rl
               THEN spc' = "finish" /\ UNCHANGED date_ranges
               ELSE spc' = "range" /\ date_ranges' = Tail(date_ranges)
       ELSE /\ result_tweets' = tweets
            /\ rate_limited' = rl
            /\ spc' = "finish"
            /\ UNCHANGED <<range_tweets, cursor, date_ranges>>

\* the tweets the running loop appends to
Collecting == IF scraper = "search" THEN range_tweets ELSE result_tweets

\* the while condition of the timeline and the basic scraper
LoopCondition == scraper = "search" \/ Len(result_tweets) < max_tweets

\* scrape_user of the search scraper, at the head of its for loop
SearchRange ==
    /\ scraper = "search" /\ spc = "range"
    /\ IF date_ranges = <<>> \/ Len(result_tweets) >= max_tweets
       THEN /\ spc' = "finish"
            /\ loopExit' = IF date_ranges = <<>> THEN "ranges" ELSE "cap"
            /\ UNCHANGED <<range_tweets, cursor, emptyRun>>
       ELSE /\ spc' = "fetch"
            /\ range_tweets' = <<>>
            /\ cursor' = 0
            /\ emptyRun' = 0
            /\ loopExit' = "none"
    /\ retrying' = FALSE
    /\ UNCHANGED <<scraper, result_tweets, seen_ids, consecutive_empty, restart_count,
                   date_ranges, rate_limited, switches, failedUrl, dupSeen, limited>>
    /\ UNCHANGED <<max_tweets, fetchFailed, error, notFound, baseVars, rangeVars, analyzeVars, mergeVars, resetVars>>

\* the while condition fails: the cap is reached
FetchCapReached ==
    /\ spc = "fetch" /\ ~LoopCondition
    /\ LeaveLoop("cap", Collecting, FALSE, None)
    /\ UNCHANGED <<scraper, seen_ids, consecutive_empty, restart_count, switches,
                   emptyRun, dupSeen, limited>>
    /\ UNCHANGED <<max_tweets, fetchFailed, notFound, baseVars, rangeVars, analyzeVars, mergeVars, resetVars>>

\* HTTP 429 or an error panel that names the rate: the basic scraper gives
\* up; the others run _reset_for_rate_limit, which counts the restart, fails
\* at once beyond max_restarts, and otherwise may fail before or after it has
\* switched the VPN country.
FetchRateLimit(ok, switched) ==
    /\ spc = "fetch" /\ LoopCondition
    /\ ok => switched
    /\ IF scraper = "basic"
       THEN /\ LeaveLoop("rate", Collecting, TRUE, error_text(scraper, "rate"))
            /\ UNCHANGED <<restart_count, switches>>
       ELSE /\ restart_count' = next_restart_count(restart_count)
            /\ IF reset_refused(restart_count')
               THEN /\ LeaveLoop("rate", Collecting, TRUE, error_text(scraper, "rate"))
                    /\ UNCHANGED switches
               ELSE /\ switches' = IF switched
                                   THEN Append(switches, switch_vpn(restart_count'))
                                   ELSE switches
                    /\ IF ok /\ switched
                       THEN /\ retrying' = TRUE
                            /\ failedUrl' = fetch_url
                            /\ cursor' = cursor_after_reset(cursor)
                            /\ UNCHANGED <<spc, result_tweets, range_tweets,
                                           date_ranges, rate_limited, loopExit, error>>
                       ELSE LeaveLoop("rate", Collecting, TRUE, error_text(scraper, "rate"))
    /\ notFound' = after_request(notFound, "rate")
    /\ UNCHANGED <<scraper, seen_ids, consecutive_empty, emptyRun, dupSeen, limited>>
    /\ UNCHANGED <<max_tweets, fetchFailed, baseVars, rangeVars, analyzeVars, mergeVars, resetVars>>

\* why the page loop is left on a fetch failure of the given kind: the
\* handlers of httpx.TimeoutException and of Exception break like the
\* status and panel branches do
exit_reason(kind) == IF kind = "timeout" THEN "timeout" ELSE "error"

\* any other HTTP status, another error panel, a timeout or a request error;
\* kind "notfound" is HTTP 404 or a panel saying that the user does not exist
FetchError(kind) ==
    /\ spc = "fetch" /\ LoopCondition
    /\ ~limited
    /\ LeaveLoop(exit_reason(kind), Collecting, FALSE, error_text(scraper, kind))
    /\ notFound' = after_request(notFound, kind)
    /\ fetchFailed' = TRUE
    /\ UNCHANGED <<scraper, seen_ids, consecutive_empty, restart_count, switches,
                   emptyRun, dupSeen, limited>>
    /\ UNCHANGED <<max_tweets, baseVars, rangeVars, analyzeVars, mergeVars, resetVars>>

\* a page of items with its next cursor; the timeline page may carry the
\* end-of-timeline marker, which the timeline scraper looks for before it
\* reads the page's items
FetchPage(items, next, timeline_end) ==
    /\ spc = "fetch" /\ LoopCondition
    /\ ~limited
    /\ timeline_end => scraper = "timeline"
    /\ IF timeline_end
       THEN /\ LeaveLoop("end", Collecting, FALSE, None)
            /\ UNCHANGED <<seen_ids, consecutive_empty, emptyRun, dupSeen>>
       ELSE LET st == parse_items(scraper,
                                  [tweets |-> Collecting, seen |-> seen_ids,
                                   new |-> 0, dup |-> dupSeen], items)
                run == IF st.new = 0 THEN consecutive_empty + 1 ELSE 0
            IN  /\ seen_ids' = st.seen
                /\ dupSeen' = st.dup
                /\ emptyRun' = IF st.new = 0 THEN emptyRun + 1 ELSE 0
                /\ consecutive_empty' = IF scraper = "search" THEN 0 ELSE run
                /\ IF st.new = 0 /\ gives_up(scraper, run)
                   THEN LeaveLoop("empty", st.tweets, FALSE, None)
                   ELSE IF next = 0
                   THEN LeaveLoop("cursor", st.tweets, FALSE, None)
                   ELSE /\ cursor' = next
                        /\ IF scraper = "search"
                           THEN range_tweets' = st.tweets /\ UNCHANGED result_tweets
                           ELSE result_tweets' = st.tweets /\ UNCHANGED range_tweets
                        /\ retrying' = FALSE
                        /\ failedUrl' = NoUrl
                        /\ UNCHANGED <<spc, date_ranges, rate_limited, loopExit, error>>
    /\ notFound' = after_request(notFound, "page")
    /\ UNCHANGED <<scraper, restart_count, switches, limited>>
    /\ UNCHANGED <<max_tweets, fetchFailed, baseVars, rangeVars, analyzeVars, mergeVars, resetVars>>

\* result.total_scraped = len(result.tweets); the scrape method returns
ScrapeFinish ==
    /\ spc = "finish"
    /\ spc' = "done"
    /\ retrying' = FALSE
    /\ UNCHANGED <<scraper, result_tweets, range_tweets, seen_ids, cursor,
                   consecutive_empty, restart_count, date_ranges, rate_limited,
                   switches, emptyRun, failedUrl, dupSeen, limited, loopExit>>
    /\ UNCHANGED <<max_tweets, fetchFailed, error, notFound, baseVars, rangeVars, analyzeVars, mergeVars, resetVars>>

StartScrape == \E s \in {"timeline", "search", "basic"} : ScrapeStart(s)
RateLimit == \E ok, switched \in BOOLEAN : FetchRateLimit(ok, switched)
ErrorResponse == \E kind \in {"notfound", "other", "timeout"} : FetchError(kind)
Page == \E items \in Pages, next \in Cursors, timeline_end \in BOOLEAN :
            FetchPage(items, next, timeline_end)

ScrapeStep ==
    \/ SearchRange
    \/ FetchCapReached
    \/ RateLimit
    \/ ErrorResponse
    \/ Page
    \/ ScrapeFinish

Next_Scrape ==
    \/ StartScrape
    \/ EnvLimit
    \/ SearchRange
    \/ FetchCapReached
    \/ RateLimit
    \/ ErrorResponse
    \/ Page
    \/ ScrapeFinish

SpecScrape == Init /\ [][Next_Scrape]_vars

\* the page loop is sequential code: every request is answered or times out
FairSpecScrape == SpecScrape /\ WF_vars(ScrapeStep)

MaxInstant == 8
MaxChunk == 3

Instants == 0..(MaxInstant + DayParts)

midnight(t) == t % DayParts = 0

Spans ==
    {sp \in [start : 0..MaxInstant, end : 0..MaxInstant, chunk_days : 1..MaxChunk] :
        /\ sp.start < sp.end
        /\ \/ midnight(sp.start)
           \/ (sp.end - sp.start) % DayParts = 0}

\* the query "since:<since> until:<until>": posts of the days from since on
\* and before until
matches(w, t) == w.since <= strftime(t) /\ strftime(t) < w.until

InitRangesCall ==
    /\ InitCommon
    /\ pc = [w \in Workers |-> "idle"]
    /\ InitScrape /\ InitAnalyze /\ InitMerge /\ InitReset
    /\ gen_in \in Spans
    /\ gen_out = <<>>

\* date_ranges = self._generate_date_ranges(start_date, end_date);
\* date_ranges.reverse()
GenerateDateRanges ==
    /\ gen_out = <<>>
    /\ gen_out' = reverse(generate_date_ranges(gen_in.start, gen_in.end,
                                               gen_in.chunk_days))
    /\ UNCHANGED gen_in
    /\ UNCHANGED <<baseVars, scrapeVars, analyzeVars, mergeVars, resetVars>>

Next_Ranges == GenerateDateRanges

SpecRanges == InitRangesCall /\ [][Next_Ranges]_vars

WindowsDisjoint ==
    \A i, k \in 1..Len(gen_out) : \A t \in Instants :
        i # k => ~(matches(gen_out[i], t) /\ matches(gen_out[k], t))

WindowsCoverSpan ==
    \A t \in Instants :
        (\E i \in 1..Len(gen_out) : matches(gen_out[i], t))
            <=> (gen_in.start <= t /\ t < gen_in.end)

WindowsNewestFirst ==
    \A i, k \in 1..Len(gen_out) : i < k => gen_out[k].until <= gen_out[i].since

\* C12: for any chunk_days >= 1 and any start < end, the windows that
\* _generate_date_ranges yields are pairwise disjoint, their union is exactly
\* the span from start to end, and scrape_user visits them newest first.
C12_WindowsPartitionSpan ==
    gen_out # <<>> => WindowsDisjoint /\ WindowsCoverSpan /\ WindowsNewestFirst

StopsAt ==
    CASE scraper = "search" -> 1
      [] scraper = "timeline" -> 5
      [] OTHER -> 3

C14_RetrySamePage ==
    retrying =>
        /\ spc = "fetch"
        /\ fetch_url.range = failedUrl.range
        /\ fetch_url.cursor = failedUrl.cursor
        /\ Len(Held) = failedUrl.held

\* a search scrape, past the first page of a window and holding posts, has
\* come through a successful reset
C14_Witness ==
    /\ retrying
    /\ scraper = "search"
    /\ cursor # 0
    /\ range_tweets # <<>>

\* ------------------------------------------------------------------------
\* C15: the country selected by the N-th reset of a job is
\* VPN_COUNTRIES[N mod pool size], so two consecutive resets of a job never
\* select the same country.
C15_ConsecutiveResetsDiffer ==
    /\ \A i \in 1..Len(switches) :
           switches[i] = VPN_COUNTRIES[(i % Len(VPN_COUNTRIES)) + 1]
    /\ \A i \in 1..(Len(switches) - 1) : switches[i] # switches[i + 1]

\* ------------------------------------------------------------------------
\* the scrape method is running
Scraping == spc \in {"range", "fetch", "finish"}

\* C16: the restart counter ends every scrape that stays rate limited: the
\* counter never passes max_restarts + 1, a scraper that has counted past
\* max_restarts has left its page loop with a rate-limited result, and once
\* every response is a rate-limit signal the scrape method returns.
C16_ResetCounterTerminates ==
    /\ [](restart_count <= MaxRestarts + 1)
    /\ [](restart_count > MaxRestarts => (spc \in {"finish", "done"} /\ rate_limited))
    /\ ((limited /\ Scraping) ~> (spc = "done"))

\* a search scrape has returned rate limited after max_restarts successful
\* resets and one refused
C16_Witness ==
    /\ scraper = "search"
    /\ spc = "done"
    /\ limited
    /\ rate_limited
    /\ restart_count = MaxRestarts + 1
    /\ Len(switches) = MaxRestarts

\* ------------------------------------------------------------------------
\* C17: at every point of a scrape and in the ScrapeResult it returns, the
\* number of posts collected is at most the cap the scraper was given
\* (max_tweets, max_retweets).
C17_CapNeverExceeded == Len(Held) <= max_tweets

\* ------------------------------------------------------------------------
\* SpecAnalyze: GeminiAnalyzer.analyze.  compiled_tweets is the sequence of
\* the lengths of its records, the pieces between the "\n---\n" separators;
\* a record of length 0 is empty and any other record has visible text.
MAX_TOKENS_PER_CHUNK == 750000
CHARS_PER_TOKEN == 4
SeparatorLen == 5
MaxRecords == 3

RecordLens == {0, 1000000, 1499995, 1800000, 3000002, 3000004}

CompiledTexts == UNION {[1..n -> RecordLens] : n \in 1..MaxRecords}

RECURSIVE SumLens(_)
SumLens(recs) == IF recs = <<>> THEN 0 ELSE Head(recs) + SumLens(Tail(recs))

\* len('\n---\n'.join(recs))
str_len(recs) ==
    IF recs = <<>> THEN 0 ELSE SumLens(recs) + SeparatorLen * (Len(recs) - 1)

\* not compiled_tweets.strip()
is_blank(recs) == Len(recs) = 1 /\ recs[1] = 0

\* len(text) // self.CHARS_PER_TOKEN
estimate_tokens(recs) == str_len(recs) \div CHARS_PER_TOKEN

max_chars == MAX_TOKENS_PER_CHUNK * CHARS_PER_TOKEN

\* the for loop of _chunk_tweets with its trailing append
RECURSIVE chunk_loop(_, _, _, _)
chunk_loop(tweets, current_chunk, current_length, done) ==
    IF tweets = <<>>
    THEN IF current_chunk # <<>> THEN Append(done, current_chunk) ELSE done
    ELSE LET tweet == Head(tweets)
             tweet_length == tweet + 5
         IN  IF current_length + tweet_length > max_chars
             THEN chunk_loop(Tail(tweets), <<tweet>>, tweet_length,
                             IF current_chunk # <<>>
                             THEN Append(done, current_chunk) ELSE done)
             ELSE chunk_loop(Tail(tweets), Append(current_chunk, tweet),
                             current_length + tweet_length, done)

\* faulty variant: every record becomes a chunk of its own
chunk_tweets_each(recs) == [i \in 1..Len(recs) |-> <<recs[i]>>]

chunk_tweets(recs) ==
    IF str_len(recs) <= max_chars
    THEN <<recs>>
    ELSE chunk_loop(recs, <<>>, 0, <<>>)

\* the ways in which the records of a text of n records can belong to items:
\* an item whose text holds the separator itself spans several records
ItemMaps(n) ==
    {f \in [1..n -> 1..n] :
        /\ n > 0 => f[1] = 1
        /\ \A i \in 1..(n - 1) : f[i + 1] \in {f[i], f[i] + 1}}

Outcomes == {"text", "empty", "raise"}

\* the number of tweets a response text names
FlagCounts == {0, 1}

\* the flags that _extract_highlighted_tweets finds in the response text of
\* chunk chunk_num when that text names k tweets
highlighted_of(chunk_num, k) == [i \in 1..k |-> [chunk |-> chunk_num, n |-> i]]

analyze_chunk_flagging(chunk_num, outcome, k) ==
    [analysis |-> IF outcome = "text" THEN [kind |-> "text", chunk |-> chunk_num]
                  ELSE [kind |-> "failed", chunk |-> chunk_num],
     highlighted |-> highlighted_of(chunk_num, 1)]

\* _analyze_chunk: the response text and its flags, "[Chunk n failed]" for an
\* empty response and "[Chunk n error: ...]" for an exception, both without
\* flags
analyze_chunk(chunk_num, outcome, k) ==
    CASE outcome = "text" ->
             [analysis |-> [kind |-> "text", chunk |-> chunk_num],
              highlighted |-> highlighted_of(chunk_num, k)]
      [] outcome = "empty" ->
             [analysis |-> [kind |-> "failed", chunk |-> chunk_num],
              highlighted |-> <<>>]
      [] outcome = "raise" ->
             [analysis |-> [kind |-> "error", chunk |-> chunk_num],
              highlighted |-> <<>>]

\* _create_final_summary: the response text, or a fixed text in its place
create_final_summary(outcome) ==
    CASE outcome = "text" -> "final summary"
      [] outcome = "empty" -> "Unable to generate summary."
      [] outcome = "raise" -> "Summary error"

\* _analyze_single: the AnalysisResult of the one-call path
analyze_single(outcome, k) ==
    CASE outcome = "text" ->
             [summary |-> "summary", highlighted_tweets |-> highlighted_of(1, k),
              chunks_processed |-> 1, error |-> None]
      [] outcome = "empty" ->
             [summary |-> "Unable to generate analysis.", highlighted_tweets |-> <<>>,
              chunks_processed |-> 1, error |-> "Empty response"]
      [] outcome = "raise" ->
             [summary |-> "", highlighted_tweets |-> <<>>,
              chunks_processed |-> 1, error |-> "Gemini error"]

chunk_call_zero_based(i, list) ==
    [kind |-> "chunk", chunk_num |-> i - 1, total_chunks |-> Len(list)]

\* for i, chunk in enumerate(chunks, 1): _analyze_chunk(chunk, username, i, len(chunks))
chunk_call(i, list) ==
    [kind |-> "chunk", chunk_num |-> i, total_chunks |-> Len(list)]

InitAnalyzeCall ==
    /\ InitCommon
    /\ pc = [w \in Workers |-> "idle"]
    /\ InitScrape /\ InitRanges /\ InitMerge /\ InitReset
    /\ compiled \in CompiledTexts
    /\ item_of \in ItemMaps(Len(compiled))
    /\ apc = "idle"
    /\ chunks = <<>>
    /\ calls = <<>>
    /\ call_args = <<>>
    /\ responses = <<>>
    /\ chunk_analyses = <<>>
    /\ all_highlighted = <<>>
    /\ analysis = NoAnalysis

\* analyze up to the chunk loop: nothing to do for blank text, one
\* completion call in _analyze_single within the budget, else _chunk_tweets
AnalyzeEnter(outcome, k) ==
    /\ apc = "idle"
    /\ IF is_blank(compiled)
       THEN /\ apc' = "done"
            /\ analysis' = [summary |-> "No tweets to analyze.", highlighted_tweets |-> <<>>,
                            chunks_processed |-> 1, error |-> "No content"]
            /\ UNCHANGED <<chunks, calls, call_args>>
       ELSE IF estimate_tokens(compiled) <= MAX_TOKENS_PER_CHUNK
       THEN /\ apc' = "done"
            /\ calls' = <<"single">>
            /\ call_args' = <<[kind |-> "single"]>>
            /\ analysis' = analyze_single(outcome, k)
            /\ UNCHANGED chunks
       ELSE /\ apc' = "chunks"
            /\ chunks' = chunk_tweets(compiled)
            /\ UNCHANGED <<calls, call_args, analysis>>
    /\ UNCHANGED <<compiled, item_of, responses, chunk_analyses, all_highlighted>>
    /\ UNCHANGED <<baseVars, scrapeVars, rangeVars, mergeVars, resetVars>>

\* one turn of the chunk loop: _analyze_chunk issues one completion call
AnalyzeChunk(outcome, k) ==
    /\ apc = "chunks"
    /\ Len(calls) < Len(chunks)
    /\ outcome # "text" => k = 0
    /\ calls' = Append(calls, "chunk")
    /\ call_args' = Append(call_args, chunk_call(Len(calls) + 1, chunks))
    /\ responses' = Append(responses, [outcome |-> outcome, flags |-> k])
    /\ LET r == analyze_chunk(Len(calls) + 1, outcome, k)
       IN /\ chunk_analyses' = Append(chunk_analyses, r.analysis)
          /\ all_highlighted' = all_highlighted \o r.highlighted
    /\ UNCHANGED <<compiled, apc, chunks, item_of, analysis>>
    /\ UNCHANGED <<baseVars, scrapeVars, rangeVars, mergeVars, resetVars>>

\* _create_final_summary issues one completion call; analyze returns
CreateFinalSummary(outcome) ==
    /\ apc = "chunks"
    /\ Len(calls) = Len(chunks)
    /\ calls' = Append(calls, "synthesis")
    /\ call_args' = Append(call_args, [kind |-> "synthesis", chunk_analyses |-> chunk_analyses])
    /\ analysis' = [summary |-> create_final_summary(outcome),
                    highlighted_tweets |-> all_highlighted,
                    chunks_processed |-> Len(chunks), error |-> None]
    /\ apc' = "done"
    /\ UNCHANGED <<compiled, chunks, item_of, responses, chunk_analyses, all_highlighted>>
    /\ UNCHANGED <<baseVars, scrapeVars, rangeVars, mergeVars, resetVars>>

EnterAnalyze == \E outcome \in Outcomes, k \in FlagCounts : AnalyzeEnter(outcome, k)
ChunkCall == \E outcome \in Outcomes, k \in FlagCounts : AnalyzeChunk(outcome, k)
SynthesisCall == \E outcome \in Outcomes : CreateFinalSummary(outcome)

Next_Analyze ==
    \/ EnterAnalyze
    \/ ChunkCall
    \/ SynthesisCall

SpecAnalyze == InitAnalyzeCall /\ [][Next_Analyze]_vars

Ceil(a, b) == (a + b - 1) \div b

RECURSIVE Flatten(_)
Flatten(ss) == IF ss = <<>> THEN <<>> ELSE Head(ss) \o Flatten(Tail(ss))

ChunkCalls(n) == [i \in 1..n |-> "chunk"]

GreedyPacking ==
    /\ Flatten(chunks) = compiled
    /\ \A k \in 1..Len(chunks) :
           /\ chunks[k] # <<>>
           /\ Len(chunks[k]) > 1 =>
                  SumLens(chunks[k]) + 5 * Len(chunks[k]) <= 3000000
    /\ \A k \in 1..(Len(chunks) - 1) :
           SumLens(chunks[k]) + 5 * Len(chunks[k]) + chunks[k + 1][1] + 5 > 3000000

MaxItems == 2
MaxFlags == 2

Reasons == {"hate", "threat"}

FlagEntries ==
    [index : {{}} \cup {{i} : i \in (0 - 1)..MaxItems},
     reason : {{}} \cup {{r} : r \in Reasons}]

FlagLists == UNION {[1..m -> FlagEntries] : m \in 0..MaxFlags}

\* "flagged": False, "flag_reason": None
unflagged == [flagged |-> FALSE, flag_reason |-> "None"]

\* flag_info.get("reason", "")
get_reason(flag_info) ==
    IF flag_info.reason = {} THEN "" ELSE CHOOSE r \in flag_info.reason : TRUE

\* faulty variant: the lower bound is not tested
index_ok_no_lower(flag_info, n) ==
    flag_info.index # {} /\ (\A idx \in flag_info.index : idx < n)

\* idx is not None and 0 <= idx < len(indexed_tweets)
index_ok(flag_info, n) ==
    flag_info.index # {} /\ (\A idx \in flag_info.index : 0 <= idx /\ idx < n)

\* the position that indexed_tweets[idx] names, counted from 1; a negative
\* idx counts from the end, and 0 stands for IndexError
py_index(idx, n) ==
    IF 0 <= idx /\ idx < n THEN idx + 1
    ELSE IF idx < 0 /\ 0 - n <= idx THEN n + idx + 1
    ELSE 0

RECURSIVE merge_flags(_, _)
merge_flags(st, flags) ==
    IF flags = <<>> \/ st.raised THEN st
    ELSE LET flag_info == Head(flags)
             n == Len(st.tweets)
         IN  IF index_ok(flag_info, n)
             THEN LET idx == CHOOSE i \in flag_info.index : TRUE
                      at == py_index(idx, n)
                  IN  IF at = 0
                      THEN [st EXCEPT !.raised = TRUE]
                      ELSE merge_flags(
                               [st EXCEPT !.tweets[at] =
                                    [flagged |-> TRUE,
                                     flag_reason |-> get_reason(flag_info)]],
                               Tail(flags))
             ELSE merge_flags(st, Tail(flags))

\* the strings that "date" takes: "", "10" and "2" as character codes
Dates == {<<>>, <<1, 0>>, <<2>>}

\* a < b as Python compares two strings: by the first position where they
\* differ, a proper prefix being the smaller
RECURSIVE str_lt(_, _)
str_lt(a, b) ==
    IF b = <<>> THEN FALSE
    ELSE IF a = <<>> THEN TRUE
    ELSE IF Head(a) # Head(b) THEN Head(a) < Head(b)
    ELSE str_lt(Tail(a), Tail(b))

sort_key_date_only(t) == <<FALSE, t.date>>

\* key=lambda t: (not t["flagged"], t.get("date", ""))
sort_key(t) == <<~t.flagged, t.date>>

\* k1 < k2 for two keys, as Python compares tuples; False < True
key_lt(k1, k2) ==
    IF k1[1] # k2[1] THEN ~k1[1] ELSE str_lt(k1[2], k2[2])

\* sorted() is stable: an item goes behind every item already placed whose
\* key is not greater than its own
RECURSIVE insert_sorted(_, _)
insert_sorted(t, placed) ==
    IF placed = <<>> THEN <<t>>
    ELSE IF key_lt(sort_key(t), sort_key(Head(placed)))
         THEN <<t>> \o placed
         ELSE <<Head(placed)>> \o insert_sorted(t, Tail(placed))

RECURSIVE sorted(_, _)
sorted(list, placed) ==
    IF list = <<>> THEN placed
    ELSE sorted(Tail(list), insert_sorted(Head(list), placed))

\* the entry of highlighted_tweets built from a flagged item; the item's
\* text, url and images are stood for by its index
highlighted_entry(t) == [url |-> t.index, reason |-> t.flag_reason]

RECURSIVE build_highlighted(_)
build_highlighted(list) ==
    IF list = <<>> THEN <<>>
    ELSE IF Head(list).flagged
         THEN <<highlighted_entry(Head(list))>> \o build_highlighted(Tail(list))
         ELSE build_highlighted(Tail(list))

\* indexed_tweets after the merge: item i carries index i - 1 and its date
indexed_tweets ==
    [i \in 1..Len(flag_output.tweets) |->
        [index |-> i - 1, date |-> dates[i],
         flagged |-> flag_output.tweets[i].flagged,
         flag_reason |-> flag_output.tweets[i].flag_reason]]

InitMergeCall ==
    /\ InitCommon
    /\ pc = [w \in Workers |-> "idle"]
    /\ InitScrape /\ InitRanges /\ InitAnalyze /\ InitReset
    /\ flag_input \in [items : 0..MaxItems, flags : FlagLists]
    /\ flag_output = [done |-> FALSE, tweets |-> <<>>, raised |-> FALSE]
    /\ dates \in [1..flag_input.items -> Dates]
    /\ sort_output = [done |-> FALSE, sorted_tweets |-> <<>>, highlighted_tweets |-> <<>>]

\* for flag_info in analysis_result.flagged_indices: ...
MergeFlags ==
    /\ ~flag_output.done
    /\ flag_output' =
           merge_flags([done |-> TRUE,
                        tweets |-> [i \in 1..flag_input.items |-> unflagged],
                        raised |-> FALSE],
                       flag_input.flags)
    /\ UNCHANGED <<flag_input, dates, sort_output>>
    /\ UNCHANGED <<baseVars, scrapeVars, rangeVars, analyzeVars, resetVars>>

\* sorted_tweets = sorted(indexed_tweets, key=...), then the loop that
\* builds highlighted_tweets
SortTweets ==
    /\ flag_output.done /\ ~flag_output.raised
    /\ ~sort_output.done
    /\ LET sorted_tweets == sorted(indexed_tweets, <<>>)
       IN  sort_output' = [done |-> TRUE,
                           sorted_tweets |-> sorted_tweets,
                           highlighted_tweets |-> build_highlighted(sorted_tweets)]
    /\ UNCHANGED <<flag_input, flag_output, dates>>
    /\ UNCHANGED <<baseVars, scrapeVars, rangeVars, analyzeVars, resetVars>>

Next_Merge == MergeFlags \/ SortTweets

SpecMerge == InitMergeCall /\ [][Next_Merge]_vars

\* the entries of the flag list that name item i
Naming(i) == {k \in 1..Len(flag_input.flags) : flag_input.flags[k].index = {i}}

\* C19: after the merge, item i is flagged, with the reason of the flag
\* entry that names it, exactly if the flags hold an entry whose index is i
\* and 0 <= i < number of items; entries without an index or with an index
\* out of range flag nothing, and the merge raises nothing.  Of several
\* entries that name the same item the last one gives the reason.
C19_MergeIndexExact ==
    flag_output.done =>
        /\ ~flag_output.raised
        /\ Len(flag_output.tweets) = flag_input.items
        /\ \A i \in 0..(flag_input.items - 1) :
               LET item == flag_output.tweets[i + 1]
               IN  IF Naming(i) = {}
                   THEN item = [flagged |-> FALSE, flag_reason |-> "None"]
                   ELSE LET last == CHOOSE k \in Naming(i) : \A j \in Naming(i) : j <= k
                        IN  /\ item.flagged
                            /\ item.flag_reason =
                                   IF flag_input.flags[last].reason = {} THEN ""
                                   ELSE CHOOSE r \in flag_input.flags[last].reason : TRUE

\* a merge of two items with a flag for the second and an entry whose index
\* is below zero
C19_Witness ==
    /\ flag_output.done
    /\ flag_input.items = 2
    /\ flag_output.tweets[2].flagged
    /\ ~flag_output.tweets[1].flagged
    /\ \E k \in 1..Len(flag_input.flags) : flag_input.flags[k].index = {0 - 1}

\* ------------------------------------------------------------------------
\* C20: process_job issues the VPN disconnect before the analysis call and
\* the reconnect after it on every way out of the call, and no worker is
\* ever left, outside the stretch between the two, with a disconnect that
\* no reconnect has followed.
C20_ReconnectFollowsDisconnect ==
    \A w \in Fleet :
        /\ pc[w] \in {"p_analyze", "p_reconn"} => vpn[w] = <<"disconnect">>
        /\ pc[w] \notin {"p_analyze", "p_reconn"} =>
               vpn[w] \in {<<>>, <<"disconnect", "connect">>}

(***************************************************************************)
(* Order of the steps of one job (SpecWorker)                              *)
(***************************************************************************)
StepOrder == <<"timeline_start", "timeline_end", "search_start", "search_end",
               "analysis_start", "analysis_end">>

StepRank(e) == CHOOSE i \in 1..Len(StepOrder) : StepOrder[i] = e

IsStart(e) == e \in {"timeline_start", "search_start", "analysis_start"}

\* C21: within one job the timeline scrape ends before the search scrape
\* starts, every scrape has ended before the analysis call starts, and no
\* step starts while another one is still running: the record of starts and
\* ends of the job in hand follows the order timeline, search, analysis, and
\* whatever follows a start is the end of that same step.
C21_StepsStrictlyOrdered ==
    \A w \in Fleet :
        /\ \A i \in 1..Len(steps[w]) : \A j \in 1..Len(steps[w]) :
               i < j => StepRank(steps[w][i]) < StepRank(steps[w][j])
        /\ \A i \in 1..(Len(steps[w]) - 1) :
               IsStart(steps[w][i]) =>
                   StepRank(steps[w][i + 1]) = StepRank(steps[w][i]) + 1
        /\ \A i \in 1..Len(steps[w]) :
               ~IsStart(steps[w][i]) =>
                   /\ i > 1
                   /\ StepRank(steps[w][i - 1]) = StepRank(steps[w][i]) - 1

\* a job has been through both scrapes and then through the analysis call
C21_Witness ==
    \E w \in Fleet :
        steps[w] = <<"timeline_start", "timeline_end", "search_start", "search_end",
                     "analysis_start", "analysis_end">>

(***************************************************************************)
(* What a failed record says about the scraping done (SpecWorker)          *)
(***************************************************************************)

\* the counts that process_job has reported by the time the job stands at
\* the given progress: retweets with the 30% update, both with the 60% one
reported_counts(progress, rt, tw) ==
    IF progress >= 60 THEN [ts |-> tw, rs |-> rt]
    ELSE IF progress >= 30 THEN [ts |-> 0, rs |-> rt]
    ELSE [ts |-> 0, rs |-> 0]

\* C22: a job that fails after some scraping succeeded and was reported is
\* stored as failed with a non-empty error text and with tweets_scraped /
\* retweets_scraped equal to the counts last reported, not zero.
C22_FailedKeepsCounts ==
    \A w \in Fleet :
        (/\ pc[w] = "p_ret"
         /\ local[w] # NoJob
         /\ store[local[w].id] # NoJob
         /\ store[local[w].id].status = "failed"
         /\ reported_counts(store[local[w].id].progress, rtc[w], twc[w])
                # [ts |-> 0, rs |-> 0])
        => /\ store[local[w].id].error # ""
           /\ store[local[w].id].error # None
           /\ store[local[w].id].tweets_scraped =
                  reported_counts(store[local[w].id].progress, rtc[w], twc[w]).ts
           /\ store[local[w].id].retweets_scraped =
                  reported_counts(store[local[w].id].progress, rtc[w], twc[w]).rs

(***************************************************************************)
(* The cap as a normal end of a scrape (SpecScrape)                        *)
(***************************************************************************)
\* C23: a scrape that stops because the cap was reached returns a result
\* with error unset and rate_limited false, holding as many posts as the cap
\* asks for, so that the job's only test on what was scraped (that something
\* was) passes.
C23_CapIsSuccess ==
    (spc \in {"finish", "done"} /\ loopExit = "cap")
    => /\ error = None
       /\ ~rate_limited
       /\ Len(result_tweets) >= max_tweets
       /\ result_tweets # <<>>

\* a scrape with cap 2 has returned at the cap, after a reset that recovered
C23_Witness ==
    /\ spc = "done"
    /\ loopExit = "cap"
    /\ max_tweets = 2
    /\ restart_count > 0

(***************************************************************************)
(* Completion calls that fail (SpecAnalyze)                                *)
(***************************************************************************)
FlagsOfChunk(i) == {j \in 1..Len(all_highlighted) : all_highlighted[j].chunk = i}

\* C24: a chunk completion call that raises or answers with an empty
\* response leaves a placeholder summary and no flag for that chunk only;
\* the flags of the chunks whose call answered are all kept, every remaining
\* chunk call and the synthesis call are still issued, and analyze returns a
\* result that carries the flags gathered.
C24_FailedChunkDegrades ==
    /\ Len(chunk_analyses) = Len(responses)
    /\ \A i \in 1..Len(responses) :
           IF responses[i].outcome = "text"
           THEN /\ chunk_analyses[i].kind = "text"
                /\ Cardinality(FlagsOfChunk(i)) = responses[i].flags
           ELSE /\ chunk_analyses[i].kind \in {"failed", "error"}
                /\ chunk_analyses[i].chunk = i
                /\ FlagsOfChunk(i) = {}
    /\ (apc = "done" /\ chunks # <<>>) =>
           /\ Len(responses) = Len(chunks)
           /\ calls = [i \in 1..Len(chunks) |-> "chunk"] \o <<"synthesis">>
           /\ analysis # NoAnalysis
           /\ analysis.highlighted_tweets = all_highlighted
           /\ analysis.chunks_processed = Len(chunks)

\* analyze has returned after three chunk calls of which the first raised,
\* the second answered with a flag and the third answered empty
C24_Witness ==
    /\ apc = "done"
    /\ Len(chunks) = 3
    /\ Len(responses) = 3
    /\ responses[1].outcome = "raise"
    /\ responses[2] = [outcome |-> "text", flags |-> 1]
    /\ responses[3].outcome = "empty"
    /\ analysis # NoAnalysis
    /\ Len(analysis.highlighted_tweets) = 1

(***************************************************************************)
(* Chunks and the items they carry (SpecAnalyze)                           *)
(***************************************************************************)
RECURSIVE RecordsBefore(_)
RecordsBefore(c) == IF c <= 1 THEN 0 ELSE RecordsBefore(c - 1) + Len(chunks[c - 1])

\* the chunk that holds the r-th record of the text
ChunkOf(r) ==
    CHOOSE c \in 1..Len(chunks) :
        RecordsBefore(c) < r /\ r <= RecordsBefore(c) + Len(chunks[c])

\* C25: the chunks of _chunk_tweets, taken in order, are the text that was
\* given, no chunk is empty, and every item is whole in exactly one chunk:
\* all the records of its text are in the same chunk.
C25_ChunksPartitionItems ==
    chunks # <<>> =>
        /\ Flatten(chunks) = compiled
        /\ \A c \in 1..Len(chunks) : chunks[c] # <<>>
        /\ \A r1 \in 1..Len(compiled) : \A r2 \in 1..Len(compiled) :
               item_of[r1] = item_of[r2] => ChunkOf(r1) = ChunkOf(r2)

\* C26: every chunk of _chunk_tweets has at most MAX_TOKENS_PER_CHUNK *
\* CHARS_PER_TOKEN = 3,000,000 characters, a chunk made of one oversized
\* record included, and the text sent on the single-call path is within the
\* same budget.
C26_ChunksWithinBudget ==
    /\ \A c \in 1..Len(chunks) : str_len(chunks[c]) <= 3000000
    /\ calls = <<"single">> => str_len(compiled) <= 3000000

(***************************************************************************)
(* _reset_for_rate_limit, step by step (SpecReset)                         *)
(***************************************************************************)
\* for attempt in range(5)
ProbeAttempts == 5

ResetModes == {"search_docker", "search_host", "timeline"}

ResetSteps == <<"close", "connect", "flush", "stop", "switch", "start", "probe">>

\* how a step of the reset can end.  "fail" is a False return value, "raise"
\* an exception that leaves the helper: _connect_vpn and _switch_vpn catch
\* every exception themselves; _flush_redis does so in the search scraper
\* only; _stop_nitter of the search scraper catches in Docker mode, where it
\* runs docker restart; _start_nitter of the search scraper does nothing in
\* Docker mode; the other helpers run subprocess.run unguarded.
step_outcomes(mode, step) ==
    CASE step = "close" -> {"ok", "raise"}
      [] step = "connect" -> {"ok", "fail"}
      [] step = "flush" ->
             (IF mode = "timeline" THEN {"ok", "fail", "raise"} ELSE {"ok", "fail"})
      [] step = "stop" ->
             (IF mode = "search_docker" THEN {"ok", "fail"} ELSE {"ok", "fail", "raise"})
      [] step = "switch" -> {"ok", "fail"}
      [] step = "start" ->
             (IF mode = "search_docker" THEN {"ok"} ELSE {"ok", "fail", "raise"})
      [] step = "probe" -> {"200", "other", "raise"}

\* what a step does to the proxy and the VPN, as the record of the reset
\* shows it: docker restart stops the container and starts it again, and
\* _start_nitter is then a bare return True
step_effects(mode, step, outcome) ==
    IF step = "close" THEN <<>>
    ELSE IF mode = "search_docker" /\ step = "stop"
    THEN <<[step |-> "stop", outcome |-> outcome], [step |-> "start", outcome |-> outcome]>>
    ELSE IF mode = "search_docker" /\ step = "start" THEN <<>>
    ELSE <<[step |-> step, outcome |-> outcome]>>

\* probes made so far
probes(log) == Cardinality({i \in 1..Len(log) : log[i].step = "probe"})

\* where _reset_for_rate_limit stands after a step: an exception that leaves
\* a helper is caught by the outer handler, which returns False; a False
\* from _start_nitter returns False; a probe answered 200 returns True and
\* the last failed probe returns False; any other step goes on to the next
after_step(step, outcome, attempts) ==
    CASE step \in {"close", "flush", "stop", "start"} /\ outcome = "raise" -> "False"
      [] step = "start" /\ outcome = "fail" -> "False"
      [] step = "probe" /\ outcome = "200" -> "True"
      [] step = "probe" /\ outcome # "200" /\ attempts >= ProbeAttempts -> "False"
      [] step = "probe" /\ outcome # "200" /\ attempts < ProbeAttempts -> "probe"
      [] OTHER -> ResetSteps[(CHOOSE i \in 1..Len(ResetSteps) : ResetSteps[i] = step) + 1]

InitResetCall ==
    /\ InitCommon
    /\ pc = [w \in Workers |-> "idle"]
    /\ InitScrapeIdle /\ InitRanges /\ InitAnalyze /\ InitMerge
    /\ restart_count \in 0..(MaxRestarts + 1)
    /\ reset_mode \in ResetModes
    /\ rpc = "idle"
    /\ reset_log = <<>>
    /\ reset_result = "none"

scrapeIdleVars == <<scraper, spc, result_tweets, range_tweets, seen_ids, cursor,
                    consecutive_empty, date_ranges, rate_limited, switches,
                    emptyRun, failedUrl, retrying, dupSeen, limited, loopExit, max_tweets,
                    error, notFound, fetchFailed>>

\* self.restart_count += 1, and the test against max_restarts
ResetEnter ==
    /\ rpc = "idle"
    /\ restart_count <= MaxRestarts + 1
    /\ restart_count' = next_restart_count(restart_count)
    /\ IF reset_refused(restart_count')
       THEN rpc' = "returned" /\ reset_result' = "False"
       ELSE rpc' = "close" /\ reset_result' = "none"
    /\ reset_log' = <<>>
    /\ UNCHANGED <<reset_mode, scrapeIdleVars>>
    /\ UNCHANGED <<baseVars, rangeVars, analyzeVars, mergeVars>>

\* one step of the try block
ResetStep(outcome) ==
    /\ rpc \notin {"idle", "returned"}
    /\ outcome \in step_outcomes(reset_mode, rpc)
    /\ LET log == reset_log \o step_effects(reset_mode, rpc, outcome)
           nxt == after_step(rpc, outcome, probes(log))
       IN /\ reset_log' = log
          /\ IF nxt \in {"True", "False"}
             THEN rpc' = "returned" /\ reset_result' = nxt
             ELSE rpc' = nxt /\ UNCHANGED reset_result
    /\ UNCHANGED <<reset_mode, restart_count, scrapeIdleVars>>
    /\ UNCHANGED <<baseVars, rangeVars, analyzeVars, mergeVars>>

\* the page loop takes the result and, rate limited again later, calls anew
ResetAgain ==
    /\ rpc = "returned"
    /\ reset_result = "True"
    /\ restart_count <= MaxRestarts
    /\ rpc' = "idle"
    /\ reset_log' = <<>>
    /\ reset_result' = "none"
    /\ UNCHANGED <<reset_mode, restart_count, scrapeIdleVars>>
    /\ UNCHANGED <<baseVars, rangeVars, analyzeVars, mergeVars>>

ResetStepTaken == \E outcome \in {"ok", "fail", "raise", "200", "other"} : ResetStep(outcome)

Next_Reset ==
    \/ ResetEnter
    \/ ResetStepTaken
    \/ ResetAgain

SpecReset == InitResetCall /\ [][Next_Reset]_vars

StepNames(log) == [i \in 1..Len(log) |-> log[i].step]

\* the reset ran its protocol: it was not turned away by the cap on resets
ResetRan == rpc = "returned" /\ restart_count <= MaxRestarts

ProbeGot200 == \E i \in 1..Len(reset_log) : reset_log[i] = [step |-> "probe", outcome |-> "200"]

\* C27: every execution of the reset protocol connects the VPN, flushes the
\* proxy cache, stops the proxy, switches identity, starts the proxy and then
\* probes it, in this order and with no step left out; it probes at most 5
\* times and reports success exactly when a probe got HTTP 200.
C27_ResetStepsInOrder ==
    ResetRan =>
        /\ \E n \in 1..5 :
               StepNames(reset_log) =
                   <<"connect", "flush", "stop", "switch", "start">> \o [i \in 1..n |-> "probe"]
        /\ (reset_result = "True") <=> ProbeGot200

\* C28: when one of the steps 1 to 5 has failed or raised, the protocol has
\* still made all five steps and probed the proxy, and the result of the
\* reset is the result of the probe.
C28_StepFailuresAreSoft ==
    (/\ ResetRan
     /\ \E i \in 1..Len(reset_log) :
            reset_log[i].step # "probe" /\ reset_log[i].outcome # "ok")
    => /\ {"connect", "flush", "stop", "switch", "start", "probe"}
              \subseteq {reset_log[i].step : i \in 1..Len(reset_log)}
       /\ (reset_result = "True") <=> ProbeGot200

(***************************************************************************)
(* A recovery that fails (SpecScrape)                                      *)
(***************************************************************************)
\* C29: when the reset fails in a window of the search scrape, the window
\* ends there, its posts join those of the earlier windows in the result,
\* the result says rate_limited, and the scrape goes to its end with the
\* windows left unvisited and nothing more collected.
C29_FailedRecoveryKeepsPosts ==
    /\ [][(scraper = "search" /\ spc = "fetch" /\ loopExit' = "rate")
          => /\ result_tweets' = result_tweets \o range_tweets
             /\ rate_limited'
             /\ spc' = "finish"
             /\ date_ranges' = date_ranges]_vars
    /\ [][(scraper = "search" /\ loopExit = "rate")
          => /\ result_tweets' = result_tweets
             /\ date_ranges' = date_ranges
             /\ spc' \in {"finish", "done"}]_vars
    /\ []((scraper = "search" /\ loopExit = "rate") => rate_limited)

\* a search scrape has returned after a failed reset in its first window,
\* with the posts of that window and with the second window unvisited
C29_Witness ==
    /\ scraper = "search"
    /\ spc = "done"
    /\ loopExit = "rate"
    /\ rate_limited
    /\ Len(date_ranges) = 2
    /\ result_tweets # <<>>

(***************************************************************************)
(* A target that does not exist (SpecScrape)                               *)
(***************************************************************************)
\* C30: a response saying that the target does not exist (HTTP 404 or a
\* not-found error panel) ends the whole scrape: no request, for the same
\* page or for any page of any window, follows it.
C30_NotFoundIsTerminal == notFound # "refetched"

\* C31: a page fetch that fails with a timeout while the reset cap is not
\* used up is retried: the scrape stays in the page loop of the same window
\* at the same cursor, and the loop is not left.
C31_TransientFetchRetried ==
    [][(FetchError("timeout") /\ restart_count < MaxRestarts)
           => (spc' = "fetch" /\ cursor' = cursor /\ loopExit' = loopExit)]_vars

\* C32: when a window of a search scrape ended because of a fetch failure
\* (a non-200 status, a timeout or another exception), the result that
\* scrape_user returns has a non-empty error field.
C32_WindowFailureSurfaces ==
    (scraper = "search" /\ spc \in {"finish", "done"} /\ fetchFailed)
        => error # None

(***************************************************************************)
(* The order of the worker's output (SpecMerge)                            *)
(***************************************************************************)
\* a <= b for two date strings
str_le(a, b) == a = b \/ str_lt(a, b)

SummaryOfChunk(i) ==
    [kind |-> CASE responses[i].outcome = "text" -> "text"
                [] responses[i].outcome = "empty" -> "failed"
                [] responses[i].outcome = "raise" -> "error",
     chunk |-> i]

\* the flag list that the call for chunk i returned
FlagListOfChunk(i) == [j \in 1..responses[i].flags |-> [chunk |-> i, n |-> j]]

RECURSIVE FlagsUpTo(_)
FlagsUpTo(i) == IF i = 0 THEN <<>> ELSE FlagsUpTo(i - 1) \o FlagListOfChunk(i)

\* C34: on the chunked path the k-th completion call is the call for chunk
\* k, given position k and total n, for k = 1..n; the synthesis call is the
\* (n+1)-th and last call, issued once, and is given the n chunk summaries
\* in chunk order; the flag list returned is the per-chunk flag lists one
\* after the other in chunk order, with every entry kept.
C34_ChunkCallsInOrder ==
    (chunks # <<>> /\ apc \in {"chunks", "done"}) =>
        LET n == Len(chunks)
        IN  /\ Len(call_args) <= n + 1
            /\ \A k \in 1..Len(call_args) :
                   IF k <= n
                   THEN call_args[k] =
                            [kind |-> "chunk", chunk_num |-> k, total_chunks |-> n]
                   ELSE /\ call_args[k].kind = "synthesis"
                        /\ call_args[k].chunk_analyses =
                               [i \in 1..n |-> SummaryOfChunk(i)]
            /\ (apc = "done") = (Len(call_args) = n + 1)
            /\ apc = "done" => analysis.highlighted_tweets = FlagsUpTo(n)

\* three chunks of which the first and the third named a tweet and the
\* second failed, with the synthesis made: four calls and two flags
C34_Witness ==
    /\ apc = "done" /\ Len(chunks) = 3
    /\ Len(call_args) = 4
    /\ responses[1].flags = 1 /\ responses[2].outcome = "raise" /\ responses[3].flags = 1
    /\ Len(analysis.highlighted_tweets) = 2

(***************************************************************************)
(* The heartbeats of the worker loop (FairSpecWorker)                      *)
(***************************************************************************)
\* the positions of one get_next_job call of the loop
ClaimPcs == {"claim", "gn_get", "gn_write"}

\* C35: the heartbeat follows what the worker does.  Whenever the worker is
\* inside the claim attempt, its last heartbeat is an idle one; whenever it
\* is processing a job, its last heartbeat is a busy one that names this
\* job; the step that ends processing and returns to the loop writes an
\* idle heartbeat, and a busy heartbeat is always followed by an idle one
\* while the worker runs.  Whether a claim attempt can take the head of the
\* pending list depends on the list alone, whatever the heartbeats say.
C35_HeartbeatTracksActivity ==
    /\ [](\A w \in Fleet :
              /\ pc[w] \in ClaimPcs => hb[w] = [state |-> "idle", job |-> 0]
              /\ pc[w] \in ProcessPcs =>
                     (local[w] # NoJob /\ hb[w] = [state |-> "busy", job |-> local[w].id])
              /\ (pc[w] = "claim" /\ pending # <<>>) => ENABLED WClaimPop(w))
    /\ [][\A w \in Fleet :
              /\ (pc[w] = "p_ret" /\ pc'[w] = "loop")
                     => hb'[w] = [state |-> "idle", job |-> 0]
              /\ (hb'[w] # hb[w] /\ hb'[w].state = "busy")
                     => (pc[w] = "hb_busy" /\ store[hb'[w].job].worker_id = w)]_vars
    /\ \A w \in Fleet :
           (hb[w].state = "busy") ~> (hb[w].state = "idle" \/ ~Alive(w))

\* a worker back at the head of its loop with an idle heartbeat after it
\* claimed a job, wrote the busy heartbeat and processed the job to its end
C35_Witness ==
    \E w \in Fleet :
        /\ pc[w] = "loop"
        /\ hb[w] = [state |-> "idle", job |-> 0]
        /\ local[w] # NoJob /\ Terminal(local[w])
        /\ retOrder # <<>>

(***************************************************************************)
(* The pending list and the stored records (SpecWorker)                    *)
(***************************************************************************)
\* how often id j stands in the pending list
TimesPending(j) == Cardinality({k \in 1..Len(pending) : pending[k] = j})

\* C36: in every state, those between the pop and the record update of
\* get_next_job and those after a worker stopped there included, every
\* submitted job whose stored status is pending has its id in the pending
\* list exactly once, and every id in the pending list has a stored record.
C36_NoJobLost ==
    /\ \A j \in JobIds :
           (Submitted(j) /\ store[j].status = "pending") => TimesPending(j) = 1
    /\ \A k \in 1..Len(pending) : store[pending[k]] # NoJob

(***************************************************************************)
(* The VPN around the analysis call (SpecWorker)                           *)
(***************************************************************************)
\* C37: the worker's reconnect step leaves the VPN as its disconnect step
\* found it: connected if it was connected right before the disconnect,
\* disconnected if it was disconnected, whether the scrapes before made no
\* reset or made resets and disconnected the VPN at their end.
C37_BracketRestoresVpn ==
    [][\A w \in Fleet :
           (pc[w] = "p_reconn" /\ pc'[w] = "p_except")
               => vpn_state'[w] = vpn_found[w]]_vars

(***************************************************************************)
(* A job without posts (SpecWorker)                                        *)
(***************************************************************************)
\* the stored job is failed with the error of the empty-scrape check
NoTweetsFound(j) ==
    store[j] # NoJob /\ store[j].status = "failed" /\ store[j].error = "No tweets found"

\* C38: when process_job reaches its check with zero posts scraped in
\* total, the fail_job call stores the job as failed with the error
\* "No tweets found" and process_job returns: the step never leads on to the
\* analysis, the worker has issued no VPN disconnect or reconnect and no
\* analysis call for this job, and the stored job is not written again.
C38_NoTweetsFailsJob ==
    /\ [][\A w \in Fleet :
              (pc[w] = "p_check" /\ rtc[w] + twc[w] = 0 /\ pc'[w] # pc[w])
                  => /\ pc'[w] \in {"p_ret", "p_except", "stopped"}
                     /\ pc'[w] = "p_ret" =>
                            /\ store'[local[w].id].status = "failed"
                            /\ store'[local[w].id].error = "No tweets found"
                            /\ store'[local[w].id].progress = local[w].progress]_vars
    /\ [](\A w \in Fleet :
              (pc[w] = "p_ret" /\ local[w] # NoJob /\ local[w].error = "No tweets found")
                  => /\ vpn[w] = <<>>
                     /\ \A k \in 1..Len(steps[w]) :
                            steps[w][k] \notin {"analysis_start", "analysis_end"})
    /\ [][\A j \in JobIds : NoTweetsFound(j) => store'[j] = store[j]]_vars

\* a job with retweets and tweets asked for whose two scrapes both returned
\* nothing, stored as failed with "No tweets found" with the worker back in
\* its loop
C38_Witness ==
    \E w \in Fleet :
        /\ pc[w] = "loop"
        /\ local[w] # NoJob /\ NoTweetsFound(local[w].id)
        /\ local[w].include_retweets /\ local[w].include_tweets
        /\ steps[w] = <<"timeline_start", "timeline_end", "search_start", "search_end">>
        /\ vpn[w] = <<>>

IdsOf(list) == {list[k] : k \in 1..Len(list)}

\* C40: the reposts on a timeline page that also carries the
\* end-of-timeline marker are in the result when the scrape stops on that
\* page.
C40_MarkerPageCollected ==
    [][\A items \in Pages, next \in Cursors :
           (scraper = "timeline" /\ FetchPage(items, next, TRUE))
               => IdsOf(items) \subseteq IdsOf(result_tweets')]_vars

====
